---- MODULE Spec2Model ----
(***************************************************************************)
(* Item store and import normaliser of gtd_neto.                           *)
(*                                                                         *)
(* The store (lib/store.js) keeps GTD items either in one JSON file or in  *)
(* the remote table gtd_items(id, owner, payload, updated_at).  Requests   *)
(* reach it through the wrappers of src/helpers/data-access.js and the     *)
(* routes of server.js.  Every await of the code is one step of a request. *)
(***************************************************************************)
EXTENDS Integers, Sequences, FiniteSets, TLC

VARIABLES
    mode,      \* "local" | "supabase": the backend chosen at startup (USE_SUPABASE)
    pk,        \* uniqueness constraint of gtd_items: "id,owner" | "id"
    table,     \* rows of gtd_items
    dbFile,    \* content of DB_PATH
    tmpFile,   \* content of DB_PATH + ".tmp"
    req,       \* the requests being served, one record per request slot
    hist,      \* history of the completed store calls (for the sequential claims)
    client,    \* a scripted backend client, as test/store-supabase-upsert.test.js makes one
    up,        \* the call of upsertWithConflictFallbackForClient made on that client
    clock      \* the time (Date.now()), in seconds

vars == <<mode, pk, table, dbFile, tmpFile, req, hist, client, up, clock>>

(***************************************************************************)
(* Bounds                                                                  *)
(***************************************************************************)
MaxId == 2          \* item ids are 1..MaxId
MaxLen == 2         \* longest item list handed to saveAll / import
MaxScript == 3      \* longest script of answers given to the scripted client
MaxBad == 10        \* longest run of rejected items in front of an import payload
MaxTime == 4        \* the clock runs from 0 to MaxTime seconds
MaxSub == 2         \* subtask ids are 1..MaxSub
MaxStore == 3       \* a route that adds an item runs while the store holds fewer items

Ids == 1..MaxId
SubIds == 1..MaxSub

(***************************************************************************)
(* Owners.  req.auth.user.id of a signed-in user, or the process-wide      *)
(* SUPABASE_OWNER when the request carries no user.                        *)
(***************************************************************************)
SUPABASE_OWNER == "default"
NoUser == "nouser"
Users == {"u1", "u2"}
Reqs == {"r1", "r2"}

ownerForReq(user) == IF user # NoUser THEN user ELSE SUPABASE_OWNER

(***************************************************************************)
(* Items.  who is the owner the item was written for, input its text; list *)
(* and status follow the text so that the sample items cover two lists and *)
(* a done item.                                                            *)
(***************************************************************************)
\* the texts a user types: a new note, and a task that is already done
Inputs == {"comprar pan", "llamar a Ana"}
ListOf(v) == IF v = "comprar pan" THEN "collect" ELSE "hacer"
StatusOf(v) == IF v = "comprar pan" THEN "unprocessed" ELSE "done"

Item(i, who, v) ==
    [id |-> i, who |-> who, input |-> v, list |-> ListOf(v), status |-> StatusOf(v),
     createdAt |-> 0, tags |-> <<>>, subtasks |-> <<>>,
     urgency |-> 0, importance |-> 0, priorityScore |-> 0,
     sourceProjectId |-> 0, sourceSubtaskId |-> 0]

ItemsOf(who) == {Item(i, who, v) : i \in Ids, v \in Inputs}

Range(s) == {s[k] : k \in 1..Len(s)}
IdsOf(s) == {s[k].id : k \in 1..Len(s)}
HasDupIds(s) == \E k, l \in 1..Len(s) : k # l /\ s[k].id = s[l].id

RECURSIVE SeqsUpTo(_, _)
SeqsUpTo(S, n) ==
    IF n = 0 THEN {<<>>}
    ELSE LET shorter == SeqsUpTo(S, n - 1)
         IN shorter \cup {Append(s, x) : s \in {t \in shorter : Len(t) = n - 1}, x \in S}

\* item lists a caller hands to saveAll: ids pairwise distinct (spec section 3)
ItemLists(who) == {s \in SeqsUpTo(ItemsOf(who), MaxLen) : ~HasDupIds(s)}

\* two snapshots of a store: the second rewrites item 1 and adds item 2
Snapshots(who) ==
    {<<Item(1, who, "comprar pan")>>,
     <<Item(1, who, "llamar a Ana"), Item(2, who, "comprar pan")>>}

\* items.filter(...): the elements of s that are in kept, in the order of s
RECURSIVE FilterFrom(_, _, _)
FilterFrom(s, kept, k) ==
    IF k > Len(s) THEN <<>>
    ELSE IF s[k] \in kept THEN <<s[k]>> \o FilterFrom(s, kept, k + 1)
         ELSE FilterFrom(s, kept, k + 1)
Filter(s, kept) == FilterFrom(s, kept, 1)

(***************************************************************************)
(* The file backend: a file is missing, open-and-truncated, or holds the   *)
(* JSON document {version, items}.  A file that the program did not write  *)
(* may hold a document without items ("noItems") or one whose items is not *)
(* an array, such as {"version": 1, "items": null} ("nullItems").          *)
(***************************************************************************)
Missing == [kind |-> "missing", version |-> 0, items |-> <<>>]
Truncated == [kind |-> "truncated", version |-> 0, items |-> <<>>]

\* JSON.stringify(db, null, 2) + '\n'
Stringify(db) == [kind |-> "doc", version |-> db.version, items |-> db.items]
\* documents written by another hand
DocWithoutItems == [kind |-> "noItems", version |-> 1, items |-> <<>>]
DocWithNullItems == [kind |-> "nullItems", version |-> 1, items |-> <<>>]

\* JSON.parse(raw) succeeds only on a complete document
Parseable(f) == f.kind \in {"doc", "noItems", "nullItems"}

\* array: db.items is an array; items is (db.items || [])
EmptyDb == [version |-> 1, items |-> <<>>, array |-> TRUE]

\* loadDb, local branch: readFile + JSON.parse, any failure gives the empty
\* store; {version: 1, items: [], ...data} takes items from data when data
\* has the key, whatever its value
LoadDbLocal(f) ==
    IF Parseable(f)
    THEN [version |-> f.version, items |-> f.items, array |-> f.kind # "nullItems"]
    ELSE EmptyDb

(***************************************************************************)
(* The remote backend.                                                     *)
(***************************************************************************)
Row(it, o) == [id |-> it.id, owner |-> o, payload |-> it]

RowsOfOwner(T, o) == {row \in T : row.owner = o}

\* order of a select: one payload per row (updated_at is not modelled, the
\* rows come back by id)
RECURSIVE RowsToSeq(_)
RowsToSeq(S) ==
    IF S = {} THEN <<>>
    ELSE LET first == CHOOSE x \in S : \A y \in S : x.id <= y.id
         IN <<first.payload>> \o RowsToSeq(S \ {first})

\* loadDb, remote branch: .eq('owner', SUPABASE_OWNER); the argument the
\* wrappers pass ({owner}) is not a parameter of loadDb
LoadDbRemote(T, owner) ==
    [version |-> 1, items |-> RowsToSeq(RowsOfOwner(T, SUPABASE_OWNER))]

\* rows built by saveDb: owner: SUPABASE_OWNER
SaveDbRows(items, owner) == {Row(items[k], SUPABASE_OWNER) : k \in 1..Len(items)}

\* mutant of SaveDbDelete: saveDb without its delete
SaveDbDelete_Skipped(T, owner) == T

\* saveDb's .delete().eq('owner', SUPABASE_OWNER)
SaveDbDelete(T, owner) == T \ RowsOfOwner(T, SUPABASE_OWNER)

SameKey(a, b) == IF pk = "id" THEN a.id = b.id ELSE a.id = b.id /\ a.owner = b.owner

\* a plain insert violates the table's key (23505) when a key is taken
InsertConflicts(T, items, rows) ==
    HasDupIds(items) \/ \E a \in rows, b \in T : SameKey(a, b)

BackendFaults == {"42501"}
Ok == "ok"

(***************************************************************************)
(* Conflict-target fallback of the upsert (lib/store.js,                   *)
(* upsertWithConflictFallbackForClient; exercised by                       *)
(* test/store-supabase-upsert.test.js).                                    *)
(***************************************************************************)
CONFLICT_TARGETS == <<"id,owner", "id">>

\* mutant of isConflictTargetError: every error falls back
isConflictTargetError_AnyError(err) == err.code # Ok

\* "no unique or exclusion constraint matching the ON CONFLICT specification"
isConflictTargetError(err) == err.code = "42P10"

\* what an upsert returns: {error: null}, or {error}; at tells the error
\* objects of different attempts apart
NoError == [code |-> Ok, at |-> 0]
ErrorAt(code, k) == IF code = Ok THEN NoError ELSE [code |-> code, at |-> k]

\* the state of one call: its rows, the upserts made so far, the last error,
\* and whether the call is still trying ("running"), returned ("ok") or threw
UpsertStart(rows) == [rows |-> rows, calls |-> <<>>, err |-> NoError, status |-> "running"]
NoUpsert == [rows |-> {}, calls |-> <<>>, err |-> NoError, status |-> "none"]

\* mutant of upsertWithConflictFallbackForClient: the first error is the one kept
upsertWithConflictFallbackForClient_FirstError(u, result) ==
    LET target == CONFLICT_TARGETS[Len(u.calls) + 1]
        calls == Append(u.calls, [onConflict |-> target, rows |-> u.rows])
        kept == IF u.err = NoError THEN result ELSE u.err
    IN IF result = NoError
       THEN [u EXCEPT !.calls = calls, !.err = NoError, !.status = "ok"]
       ELSE IF result.code = "42P10" /\ Len(calls) < Len(CONFLICT_TARGETS)
            THEN [u EXCEPT !.calls = calls, !.err = kept, !.status = "running"]
            ELSE [u EXCEPT !.calls = calls, !.err = kept, !.status = "failed"]

\* one attempt of the loop over CONFLICT_TARGETS, answered by `result`
upsertWithConflictFallbackForClient(u, result) ==
    LET target == CONFLICT_TARGETS[Len(u.calls) + 1]
        calls == Append(u.calls, [onConflict |-> target, rows |-> u.rows])
    IN IF result = NoError
       THEN [u EXCEPT !.calls = calls, !.err = NoError, !.status = "ok"]
       ELSE IF isConflictTargetError(result) /\ Len(calls) < Len(CONFLICT_TARGETS)
            THEN [u EXCEPT !.calls = calls, !.err = result, !.status = "running"]
            ELSE [u EXCEPT !.calls = calls, !.err = result, !.status = "failed"]

\* the table's answer to the k-th upsert, made with conflict target `target`
TableAnswer(target, fault, k) ==
    IF fault # Ok THEN ErrorAt(fault, k)
    ELSE IF target = pk THEN NoError ELSE ErrorAt("42P10", k)

\* INSERT ... ON CONFLICT (target) DO UPDATE: the row replaces the row that
\* has its key, whoever owns it
UpsertRow(T, row) == {t \in T : ~SameKey(t, row)} \cup {row}

(***************************************************************************)
(* Store functions the wrappers call with an explicit owner.               *)
(***************************************************************************)
isStoreSupabaseMode == mode = "supabase"

\* saveItem(item, {owner}): one upsert of the item's row, with the fallback;
\* f1, f2 are the faults the backend raises on the first and second attempt
saveItem(T, item, owner, f1, f2) ==
    LET u1 == upsertWithConflictFallbackForClient(UpsertStart({Row(item, owner)}),
                                                  TableAnswer(CONFLICT_TARGETS[1], f1, 1))
        u2 == IF u1.status = "running"
              THEN upsertWithConflictFallbackForClient(u1, TableAnswer(CONFLICT_TARGETS[2], f2, 2))
              ELSE u1
    IN [table |-> IF u2.status = "ok" THEN UpsertRow(T, Row(item, owner)) ELSE T,
        err |-> u2.err.code, calls |-> u2.calls]

\* mutant of deleteItemById: the delete is scoped by the owner only
deleteItemById_WholeOwner(T, id, owner) == {t \in T : t.owner # owner}

\* deleteItemById(id, {owner}): delete by (id, owner)
deleteItemById(T, id, owner) == {t \in T : ~(t.id = id /\ t.owner = owner)}

\* loadItemById / loadItemsForList / loadItemsByStatus on the remote table
loadItemById(T, id, owner) ==
    RowsToSeq({t \in RowsOfOwner(T, owner) : t.id = id})

KeepList(list, excludeDone, it) ==
    it.list = list /\ (excludeDone => it.status # "done")

loadItemsForList(T, list, excludeDone, owner) ==
    RowsToSeq({t \in RowsOfOwner(T, owner) : KeepList(list, excludeDone, t.payload)})

loadItemsByStatus(T, status, owner) ==
    RowsToSeq({t \in RowsOfOwner(T, owner) : t.payload.status = status})

(***************************************************************************)
(* Import normaliser (validateAndNormalizeImportPayload).  A raw item is    *)
(* what the payload carries: id 0 stands for an id that is missing or does *)
(* not match [a-zA-Z0-9_-]{6,64}, list "bogus" for a list outside          *)
(* IMPORT_ALLOWED_LISTS, extra for its keys outside                        *)
(* IMPORT_ALLOWED_ITEM_KEYS.                                               *)
(***************************************************************************)
MAX_IMPORT_ERROR_DETAILS == 10

IMPORT_ALLOWED_LISTS == {"collect", "hacer", "agendar", "delegar", "desglosar", "no-hacer",
                         "inbox", "next", "projects", "waiting", "someday", "calendar", "reference"}
IMPORT_ALLOWED_STATUS == {"unprocessed", "processed", "done"}

\* sanitizeInput: the text without HTML, trimmed; Padded is the sample text
\* that it changes
Padded == "  comprar pan "
sanitizeInput(input) == IF input = Padded THEN "comprar pan" ELSE input

Raw(it, extra) ==
    [k \in DOMAIN it \cup {"extra"} |-> IF k = "extra" THEN extra ELSE it[k]]

RawItems(who) ==
    {Raw(it, {}) : it \in ItemsOf(who)}
        \cup {Raw(Item(1, who, "comprar pan"), {"extra", "owner"})}
        \cup {[Raw(Item(1, who, "comprar pan"), {}) EXCEPT !.id = 0]}
        \cup {[Raw(Item(1, who, "comprar pan"), {}) EXCEPT !.list = "bogus"]}
        \cup {[Raw(Item(2, who, "comprar pan"), {}) EXCEPT !.input = Padded]}

\* the payloads a caller posts: {items: [...]} with up to MaxLen raw items,
\* or a body without an items array
NoItemsArray == [hasItems |-> FALSE, items |-> <<>>]
Payloads(who) ==
    {NoItemsArray} \cup {[hasItems |-> TRUE, items |-> s] : s \in SeqsUpTo(RawItems(who), MaxLen)}

\* mutant of toIsoDate: the date of the payload is not read
toIsoDate_AlwaysNow(value) == clock

\* toIsoDate(value, {nullable: false}): a missing date (-1) becomes the time
\* of the import
toIsoDate(value) == IF value < 0 THEN clock ELSE value

\* tags.  Lower is toLowerCase on the sample tags; LongTag stands for a tag of
\* more than 20 characters
LongTag == "una etiqueta demasiado larga"
Lower(tag) == IF tag = "Casa" THEN "casa" ELSE tag

\* Array.from(new Set(tags)): the first occurrence of each tag, in order
RECURSIVE Dedupe(_)
Dedupe(s) ==
    IF Len(s) = 0 THEN s
    ELSE LET front == Dedupe(SubSeq(s, 1, Len(s) - 1))
         IN IF s[Len(s)] \in Range(front) THEN front ELSE Append(front, s[Len(s)])

\* normalizeImportedTags: the message it throws, or Ok
TagsProblem(tags) ==
    IF Len(tags) > 20 THEN "tags max is 20"
    ELSE IF \E k \in 1..Len(tags) : Lower(sanitizeInput(tags[k])) = "" THEN "cannot be empty"
    ELSE IF \E k \in 1..Len(tags) : Lower(sanitizeInput(tags[k])) = LongTag
         THEN "must be <= 20 chars"
    ELSE Ok

\* normalizeImportedTags: the tags it returns
normalizeImportedTags(tags) ==
    Dedupe([k \in 1..Len(tags) |-> Lower(sanitizeInput(tags[k]))])

\* a subtask of an item: {id, text, status, sentTo, sentItemId}; a subtask
\* that was not sent has no sentTo ("") and no sentItemId (0)
Subtask(id, text, status) ==
    [id |-> id, text |-> text, status |-> status, sentTo |-> "", sentItemId |-> 0]

\* normalizeImportedSubtasks: the message it throws, or Ok
SubtasksProblem(subtasks) ==
    IF Len(subtasks) > 200 THEN "subtasks max is 200"
    ELSE IF \E k \in 1..Len(subtasks) : subtasks[k].id = 0 THEN "cannot be empty"
    ELSE IF \E k \in 1..Len(subtasks) : subtasks[k].status \notin {"open", "sent", "done"}
         THEN "status must be open|sent|done"
    ELSE Ok

\* normalizeImportedSubtasks: rawSubtasks.map(...)
normalizeImportedSubtasks(subtasks) ==
    [k \in 1..Len(subtasks) |->
        [Subtask(subtasks[k].id, sanitizeInput(subtasks[k].text), subtasks[k].status)
            EXCEPT !.sentTo = subtasks[k].sentTo, !.sentItemId = subtasks[k].sentItemId]]

\* normalizeImportedItem: the message it throws, or Ok
ItemProblem(raw) ==
    IF raw.extra # {} THEN "unsupported keys"
    ELSE IF raw.id \notin Ids THEN "id must match"
    ELSE IF raw.list \notin IMPORT_ALLOWED_LISTS THEN "list is not supported"
    ELSE IF raw.status \notin IMPORT_ALLOWED_STATUS THEN "status must be"
    ELSE IF raw.urgency \notin 0..5 THEN "must be between 1 and 5"
    ELSE IF raw.importance \notin 0..5 THEN "must be between 1 and 5"
    ELSE IF raw.priorityScore \notin 0..1000 THEN "must be between 1 and 1000"
    ELSE IF SubtasksProblem(raw.subtasks) # Ok THEN SubtasksProblem(raw.subtasks)
    ELSE TagsProblem(raw.tags)

\* normalizeImportedItem: the item it returns for a raw item without problem
normalizeImportedItem(raw) ==
    [id |-> raw.id, who |-> raw.who, input |-> sanitizeInput(raw.input),
     list |-> raw.list, status |-> raw.status,
     createdAt |-> toIsoDate(raw.createdAt),
     tags |-> normalizeImportedTags(raw.tags),
     subtasks |-> normalizeImportedSubtasks(raw.subtasks),
     urgency |-> raw.urgency, importance |-> raw.importance,
     priorityScore |-> raw.priorityScore,
     sourceProjectId |-> raw.sourceProjectId, sourceSubtaskId |-> raw.sourceSubtaskId]

\* mutant of ImportError: the message without the list of keys
ImportError_NoKeys(idx, message, raw) == [idx |-> idx, message |-> message, keys |-> {}]

\* one entry of importErrors, `items[${idx}]: ${err.message}`; keys are the
\* keys the message of normalizeImportedItem lists after "unsupported keys: "
ImportError(idx, message, raw) ==
    [idx |-> idx, message |-> message,
     keys |-> IF message = "unsupported keys" THEN raw.extra ELSE {}]

\* mutant of ImportScan: the forEach goes on after MAX_IMPORT_ERROR_DETAILS errors
RECURSIVE ImportScan_NoCap(_, _, _)
ImportScan_NoCap(raws, k, st) ==
    IF k > Len(raws) THEN st
    ELSE LET problem == ItemProblem(raws[k])
         IN IF problem # Ok
            THEN ImportScan_NoCap(raws, k + 1,
                    [st EXCEPT !.errors = Append(@, ImportError(k - 1, problem, raws[k]))])
            ELSE LET item == normalizeImportedItem(raws[k])
                 IN IF item.id \in st.seen
                    THEN ImportScan_NoCap(raws, k + 1,
                            [st EXCEPT !.errors =
                                Append(@, ImportError(k - 1,
                                    "duplicate id inside import payload", raws[k]))])
                    ELSE ImportScan_NoCap(raws, k + 1,
                            [st EXCEPT !.seen = @ \cup {item.id}, !.items = Append(@, item)])

\* mutant of ImportScan: seenImportIds is not consulted
RECURSIVE ImportScan_NoSeen(_, _, _)
ImportScan_NoSeen(raws, k, st) ==
    IF k > Len(raws) THEN st
    ELSE IF Len(st.errors) >= MAX_IMPORT_ERROR_DETAILS THEN ImportScan_NoSeen(raws, k + 1, st)
    ELSE LET problem == ItemProblem(raws[k])
         IN IF problem # Ok
            THEN ImportScan_NoSeen(raws, k + 1,
                    [st EXCEPT !.errors = Append(@, ImportError(k - 1, problem, raws[k]))])
            ELSE ImportScan_NoSeen(raws, k + 1,
                    [st EXCEPT !.items = Append(@, normalizeImportedItem(raws[k]))])

\* the forEach of validateAndNormalizeImportPayload over items[k..]:
\* st = [errors, seen, items]
RECURSIVE ImportScan(_, _, _)
ImportScan(raws, k, st) ==
    IF k > Len(raws) THEN st
    ELSE IF Len(st.errors) >= MAX_IMPORT_ERROR_DETAILS THEN ImportScan(raws, k + 1, st)
    ELSE LET problem == ItemProblem(raws[k])
         IN IF problem # Ok
            THEN ImportScan(raws, k + 1,
                            [st EXCEPT !.errors = Append(@, ImportError(k - 1, problem, raws[k]))])
            ELSE LET item == normalizeImportedItem(raws[k])
                 IN IF item.id \in st.seen
                    THEN ImportScan(raws, k + 1,
                                    [st EXCEPT !.errors =
                                        Append(@, ImportError(k - 1,
                                            "duplicate id inside import payload", raws[k]))])
                    ELSE ImportScan(raws, k + 1,
                                    [st EXCEPT !.seen = @ \cup {item.id},
                                               !.items = Append(@, item)])

\* mutant of validateAndNormalizeImportPayload: the items that passed are
\* returned although others failed
validateAndNormalizeImportPayload_Partial(importData) ==
    IF ~importData.hasItems
    THEN [ok |-> FALSE, items |-> <<>>, message |-> "Invalid import data format", details |-> <<>>]
    ELSE LET st == ImportScan(importData.items, 1, [errors |-> <<>>, seen |-> {}, items |-> <<>>])
         IN [ok |-> TRUE, items |-> st.items, message |-> "", details |-> st.errors]

\* validateAndNormalizeImportPayload: [ok, items, message, details]
validateAndNormalizeImportPayload(importData) ==
    IF ~importData.hasItems
    THEN [ok |-> FALSE, items |-> <<>>, message |-> "Invalid import data format", details |-> <<>>]
    ELSE LET st == ImportScan(importData.items, 1, [errors |-> <<>>, seen |-> {}, items |-> <<>>])
         IN IF Len(st.errors) > 0
            THEN [ok |-> FALSE, items |-> <<>>, message |-> "Invalid import data",
                  details |-> st.errors]
            ELSE [ok |-> TRUE, items |-> st.items, message |-> "", details |-> <<>>]

(***************************************************************************)
(* Requests.  A request slot is idle, or serves one operation: pc is the   *)
(* await it is at, pre is the store as it was when the operation began.    *)
(***************************************************************************)
NoPre == [table |-> {}, file |-> Missing]
NoItem ==
    [id |-> 0, who |-> NoUser, input |-> "", list |-> "", status |-> "",
     createdAt |-> 0, tags |-> <<>>, subtasks |-> <<>>,
     urgency |-> 0, importance |-> 0, priorityScore |-> 0,
     sourceProjectId |-> 0, sourceSubtaskId |-> 0]

IdleReq ==
    [pc |-> "idle", op |-> "none", user |-> NoUser, items |-> <<>>, id |-> 0,
     payload |-> NoItemsArray, buf |-> Missing, out |-> <<>>, n |-> 0, err |-> Ok,
     calls |-> <<>>, pre |-> NoPre, item |-> NoItem, details |-> <<>>,
     text |-> "", at |-> 0, array |-> TRUE,
     thrown |-> [code |-> "", phrases |-> {}, upper |-> FALSE]]

NoHist ==
    [saves |-> 0, owner |-> SUPABASE_OWNER, saved |-> <<>>, dropped |-> FALSE, deleted |-> 0]

\* who may send a request: attachAuth gives every local request the user
\* SUPABASE_OWNER; a remote request carries one of the signed-in users U
RequestUsers(U) == IF mode = "local" THEN {SUPABASE_OWNER} ELSE U

Faults == {Ok} \cup BackendFaults

\* makeClient(results) of the upsert test: the answers it will give, in order,
\* and the upserts it has received
NoClient == [results |-> <<>>, calls |-> <<>>]

Begin(r, op, user) ==
    [IdleReq EXCEPT !.op = op, !.user = user,
                    !.pre = [table |-> table, file |-> dbFile]]

Done(q, err) == [q EXCEPT !.pc = "done", !.err = err]

Init ==
    /\ mode \in {"local", "supabase"}
    /\ pk \in (IF mode = "supabase" THEN {"id,owner", "id"} ELSE {"id,owner"})
    /\ table = {}
    /\ dbFile = Missing
    /\ tmpFile = Missing
    /\ req = [r \in Reqs |-> IdleReq]
    /\ hist = NoHist
    /\ client = NoClient
    /\ up = NoUpsert
    /\ clock = 0

(***************************************************************************)
(* loadDb behind loadReqDb, and the narrower loads.                        *)
(***************************************************************************)
\* loadDb({owner}) as the wrappers call it: the items, or the error thrown
loadDb(owner, fault) ==
    IF isStoreSupabaseMode
    THEN IF fault # Ok THEN [err |-> fault, items |-> <<>>, array |-> TRUE]
         ELSE [err |-> Ok, items |-> LoadDbRemote(table, owner).items, array |-> TRUE]
    ELSE [err |-> Ok, items |-> LoadDbLocal(dbFile).items, array |-> LoadDbLocal(dbFile).array]

\* GET /export/json and every route that reads the whole store: loadReqDb
LoadAll(r, U) ==
    /\ req[r].pc = "idle"
    /\ \E user \in RequestUsers(U), fault \in Faults :
        LET got == loadDb(ownerForReq(user), fault)
        IN req' = [req EXCEPT ![r] =
                      Done([Begin(r, "loadAll", user) EXCEPT
                                !.out = got.items, !.array = got.array], got.err)]
    /\ UNCHANGED <<clock, client, up, mode, pk, table, dbFile, tmpFile, hist>>

\* the store's narrower loads; on the file backend the file's items, filtered
loadByIdResult(id, owner) ==
    IF isStoreSupabaseMode THEN loadItemById(table, id, owner)
    ELSE LET items == LoadDbLocal(dbFile).items
             found == Filter(items, {it \in Range(items) : it.id = id})
         IN IF Len(found) = 0 THEN <<>> ELSE <<found[1]>>

loadByListResult(list, excludeDone, owner) ==
    IF isStoreSupabaseMode THEN loadItemsForList(table, list, excludeDone, owner)
    ELSE LET items == LoadDbLocal(dbFile).items
         IN Filter(items, {it \in Range(items) : KeepList(list, excludeDone, it)})

loadByStatusResult(status, owner) ==
    IF isStoreSupabaseMode THEN loadItemsByStatus(table, status, owner)
    ELSE LET items == LoadDbLocal(dbFile).items
         IN Filter(items, {it \in Range(items) : it.status = status})

\* loadReqItemById
LoadById(r, U) ==
    /\ req[r].pc = "idle"
    /\ \E user \in RequestUsers(U), id \in Ids, fault \in Faults :
        /\ fault # Ok => isStoreSupabaseMode
        /\ req' = [req EXCEPT ![r] =
              Done([Begin(r, "loadById", user) EXCEPT
                        !.id = id,
                        !.out = IF fault = Ok THEN loadByIdResult(id, ownerForReq(user))
                                ELSE <<>>],
                   fault)]
    /\ UNCHANGED <<clock, client, up, mode, pk, table, dbFile, tmpFile, hist>>

\* loadReqItemsByList
LoadByList(r, U) ==
    /\ req[r].pc = "idle"
    /\ \E user \in RequestUsers(U), list \in {"collect", "hacer"}, excludeDone \in BOOLEAN,
          fault \in Faults :
        /\ fault # Ok => isStoreSupabaseMode
        /\ req' = [req EXCEPT ![r] =
              Done([Begin(r, "loadByList", user) EXCEPT
                        !.out = IF fault = Ok
                                THEN loadByListResult(list, excludeDone, ownerForReq(user))
                                ELSE <<>>],
                   fault)]
    /\ UNCHANGED <<clock, client, up, mode, pk, table, dbFile, tmpFile, hist>>

\* loadReqItemsByStatus
LoadByStatus(r, U) ==
    /\ req[r].pc = "idle"
    /\ \E user \in RequestUsers(U), status \in {"unprocessed", "done"}, fault \in Faults :
        /\ fault # Ok => isStoreSupabaseMode
        /\ req' = [req EXCEPT ![r] =
              Done([Begin(r, "loadByStatus", user) EXCEPT
                        !.out = IF fault = Ok
                                THEN loadByStatusResult(status, ownerForReq(user))
                                ELSE <<>>],
                   fault)]
    /\ UNCHANGED <<clock, client, up, mode, pk, table, dbFile, tmpFile, hist>>

(***************************************************************************)
(* saveDb behind saveReqDb.  A request at pc "save" is about to call       *)
(* saveDb with req.items as db.items.                                      *)
(***************************************************************************)
\* saveAll as a caller's operation: saveReqDb(req, db)
SaveAll(r, U, snapshots) ==
    /\ req[r].pc = "idle"
    /\ \E user \in RequestUsers(U) :
        \E items \in (IF snapshots THEN Snapshots(ownerForReq(user))
                       ELSE ItemLists(ownerForReq(user))) :
            req' = [req EXCEPT ![r] =
                       [Begin(r, "saveAll", user) EXCEPT !.pc = "save", !.items = items]]
    /\ UNCHANGED <<clock, client, up, mode, pk, table, dbFile, tmpFile, hist>>

\* remote: await supabase.from('gtd_items').delete().eq('owner', SUPABASE_OWNER)
SaveDbDeleteRows(r) ==
    /\ req[r].pc = "save"
    /\ isStoreSupabaseMode
    /\ \E fault \in Faults :
        IF fault # Ok
        THEN /\ req' = [req EXCEPT ![r] = Done(@, fault)]
             /\ table' = table
        ELSE /\ table' = SaveDbDelete(table, ownerForReq(req[r].user))
             /\ req' = [req EXCEPT ![r] =
                           IF Len(@.items) > 0 THEN [@ EXCEPT !.pc = "insert"] ELSE Done(@, Ok)]
    /\ UNCHANGED <<clock, client, up, mode, pk, dbFile, tmpFile, hist>>

\* remote: await supabase.from('gtd_items').insert(rows)
SaveDbInsertRows(r) ==
    /\ req[r].pc = "insert"
    /\ \E fault \in Faults :
        LET rows == SaveDbRows(req[r].items, ownerForReq(req[r].user))
            err == IF fault # Ok THEN fault
                   ELSE IF InsertConflicts(table, req[r].items, rows) THEN "23505" ELSE Ok
        IN /\ table' = IF err = Ok THEN table \cup rows ELSE table
           /\ req' = [req EXCEPT ![r] = Done(@, err)]
    /\ UNCHANGED <<clock, client, up, mode, pk, dbFile, tmpFile, hist>>

\* local: writeFile(tmp, ...) opens the temporary file, truncating it
SaveDbOpenTmp(r) ==
    /\ req[r].pc = "save"
    /\ ~isStoreSupabaseMode
    /\ tmpFile' = Truncated
    /\ req' = [req EXCEPT ![r].pc = "tmpWrite"]
    /\ UNCHANGED <<clock, client, up, mode, pk, table, dbFile, hist>>

\* local: writeFile(tmp, JSON.stringify(db, null, 2) + '\n') writes the document
SaveDbWriteTmp(r) ==
    /\ req[r].pc = "tmpWrite"
    /\ tmpFile' = Stringify([version |-> 1, items |-> req[r].items])
    /\ req' = [req EXCEPT ![r].pc = "tmpRead"]
    /\ UNCHANGED <<clock, client, up, mode, pk, table, dbFile, hist>>

\* local: await readFile(tmp)
SaveDbReadTmp(r) ==
    /\ req[r].pc = "tmpRead"
    /\ req' = [req EXCEPT ![r].pc = "dbOpen", ![r].buf = tmpFile]
    /\ UNCHANGED <<clock, client, up, mode, pk, table, dbFile, tmpFile, hist>>

\* local: writeFile(DB_PATH, ...) opens the data file, truncating it
SaveDbOpenDb(r) ==
    /\ req[r].pc = "dbOpen"
    /\ dbFile' = Truncated
    /\ req' = [req EXCEPT ![r].pc = "dbWrite"]
    /\ UNCHANGED <<clock, client, up, mode, pk, table, tmpFile, hist>>

\* local: writeFile(DB_PATH, ...) writes what was read from the temporary file
SaveDbWriteDb(r) ==
    /\ req[r].pc = "dbWrite"
    /\ dbFile' = req[r].buf
    /\ req' = [req EXCEPT ![r] = Done(@, Ok)]
    /\ UNCHANGED <<clock, client, up, mode, pk, table, tmpFile, hist>>

(***************************************************************************)
(* saveReqItem, deleteReqItem and POST /import.                            *)
(***************************************************************************)
findIndex(items, id) ==
    IF id \in IdsOf(items)
    THEN CHOOSE k \in 1..Len(items) : items[k].id = id /\ \A l \in 1..(k - 1) : items[l].id # id
    ELSE 0

\* mutant of PutItem: the item is put in front whether or not its id is stored
PutItem_AlwaysInFront(items, item) == <<item>> \o items

\* saveReqItem, local branch, lines 99-101: replace in place or put in front
PutItem(items, item) ==
    LET idx == findIndex(items, item.id)
    IN IF idx = 0 THEN <<item>> \o items ELSE [items EXCEPT ![idx] = item]

\* mutant of DropItem: the first item goes, whatever its id
DropItem_First(items, id) == IF Len(items) = 0 THEN items ELSE Tail(items)

\* deleteReqItem, local branch: db.items.filter(i => i.id !== id)
DropItem(items, id) ==
    Filter(items, {it \in Range(items) : it.id # id})

\* saveOne: saveReqItem(req, item)
SaveOne(r, U) ==
    /\ req[r].pc = "idle"
    /\ \E user \in RequestUsers(U), f1 \in Faults, f2 \in Faults :
        \E item \in ItemsOf(ownerForReq(user)) :
            LET q == [Begin(r, "saveOne", user) EXCEPT !.id = item.id, !.item = item,
                                                        !.items = <<item>>]
            IN IF isStoreSupabaseMode
               THEN LET res == saveItem(table, item, ownerForReq(user), f1, f2)
                    IN /\ table' = res.table
                       /\ req' = [req EXCEPT ![r] = Done([q EXCEPT !.calls = res.calls], res.err)]
               ELSE /\ f1 = Ok /\ f2 = Ok
                    /\ table' = table
                    /\ req' = [req EXCEPT ![r] =
                          [q EXCEPT !.pc = "save",
                                    !.items = PutItem(loadDb(ownerForReq(user), Ok).items, item)]]
    /\ UNCHANGED <<clock, client, up, mode, pk, dbFile, tmpFile, hist>>

\* deleteOne: deleteReqItem(req, id), and POST /items/:id/delete, whose local
\* branch loads and filters before it hands the db to deleteReqItem
DeleteOne(r, U) ==
    /\ req[r].pc = "idle"
    /\ \E user \in RequestUsers(U), id \in Ids, fault \in Faults :
        LET q == [Begin(r, "deleteOne", user) EXCEPT !.id = id]
        IN IF isStoreSupabaseMode
           THEN /\ table' = IF fault = Ok
                            THEN deleteItemById(table, id, ownerForReq(user)) ELSE table
                /\ req' = [req EXCEPT ![r] = Done(q, fault)]
           ELSE /\ fault = Ok
                /\ table' = table
                /\ req' = [req EXCEPT ![r] =
                      [q EXCEPT !.pc = "save",
                                !.items = DropItem(loadDb(ownerForReq(user), Ok).items, id)]]
    /\ UNCHANGED <<clock, client, up, mode, pk, dbFile, tmpFile, hist>>

\* mutant of ImportNew: every item of the payload is new
ImportNew_All(existing, normalized) == normalized

\* POST /import, lines 1942-1945: the items of the payload whose id is new
ImportNew(existing, normalized) ==
    Filter(normalized, {it \in Range(normalized) : it.id \notin IdsOf(existing)})

ImportMerge(existing, normalized) == existing \o ImportNew(existing, normalized)

\* an exported item of a list, as a raw item of a payload
RawOf(id, who, list) ==
    Raw([Item(id, who, "comprar pan") EXCEPT !.list = list, !.status = "processed"], {})

\* payloads of one item for the routes that work on items: a project with
\* an open subtask; a project with two subtasks, of one id or of two; a task
\* in hacer with its scores; an item with tags
SampleRaws(sample, who) ==
    IF sample = "gtd"
    THEN {[RawOf(id, who, "desglosar") EXCEPT
              !.subtasks = <<Subtask(1, "llamar a Ana", "open")>>] : id \in Ids}
    ELSE IF sample = "subtasks"
    THEN {[RawOf(1, who, "desglosar") EXCEPT
              !.subtasks = <<Subtask(1, "llamar a Ana", "open"),
                             Subtask(sid, "comprar pan", "open")>>] : sid \in SubIds}
    ELSE IF sample = "hacer"
    THEN {[RawOf(1, who, "hacer") EXCEPT
              !.urgency = 5, !.importance = 4, !.priorityScore = score] : score \in {7, 20}}
    ELSE IF sample = "tags"
    THEN {[RawOf(1, who, "collect") EXCEPT !.tags = tags] :
              tags \in {<<"Casa", "casa">>, <<"a", "b", "c", "d", "e", "f">>}}
    ELSE {}

SamplePayloads(sample, who) ==
    IF sample = "ids" THEN Payloads(who)
    ELSE {[hasItems |-> TRUE, items |-> s] :
             s \in {t \in SeqsUpTo(SampleRaws(sample, who), MaxLen) : Len(t) > 0}}

\* POST /import up to its saveReqDb: validation, loadReqDb, merge
ImportFrom(r, U, sample) ==
    /\ req[r].pc = "idle"
    /\ \E user \in RequestUsers(U), fault \in Faults :
        \E payload \in SamplePayloads(sample, ownerForReq(user)) :
            LET q == [Begin(r, "import", user) EXCEPT !.payload = payload]
                v == validateAndNormalizeImportPayload(payload)
                got == loadDb(ownerForReq(user), fault)
            IN IF ~v.ok
               THEN /\ fault = Ok
                    /\ req' = [req EXCEPT ![r] = Done(q, "ImportValidationError")]
               ELSE IF got.err # Ok
                    THEN req' = [req EXCEPT ![r] = Done(q, got.err)]
                    ELSE /\ fault = Ok
                         /\ Len(ImportMerge(got.items, v.items)) <= MaxStore
                         /\ req' = [req EXCEPT ![r] =
                               [q EXCEPT !.pc = "save",
                                         !.items = ImportMerge(got.items, v.items),
                                         !.n = Len(ImportNew(got.items, v.items))]]
    /\ UNCHANGED <<clock, client, up, mode, pk, table, dbFile, tmpFile, hist>>

Import(r, U) == ImportFrom(r, U, "ids")

(***************************************************************************)
(* The response is sent and the slot is free again.                        *)
(***************************************************************************)
HistAfter(q) ==
    IF q.err = Ok /\ q.op = "saveAll"
    THEN [saves |-> IF hist.saves >= 1 /\ hist.owner = ownerForReq(q.user) THEN 2 ELSE 1,
          owner |-> ownerForReq(q.user),
          saved |-> q.items,
          dropped |-> /\ hist.saves >= 1
                      /\ hist.owner = ownerForReq(q.user)
                      /\ Range(hist.saved) \ Range(q.items) # {},
          deleted |-> 0]
    ELSE IF q.err = Ok /\ q.op = "deleteOne"
    THEN [saves |-> 0, owner |-> ownerForReq(q.user), saved |-> <<>>, dropped |-> FALSE,
          deleted |-> q.id]
    ELSE IF q.op \in {"loadAll", "loadById", "loadByList", "loadByStatus"}
    THEN hist
    ELSE [saves |-> 0, owner |-> SUPABASE_OWNER, saved |-> <<>>, dropped |-> FALSE,
          deleted |-> 0]

Finish(r) ==
    /\ req[r].pc = "done"
    /\ hist' = HistAfter(req[r])
    /\ req' = [req EXCEPT ![r] = IdleReq]
    /\ UNCHANGED <<clock, client, up, mode, pk, table, dbFile, tmpFile>>

\* the same, where requests overlap and hist (a sequential history) is not kept
Respond(r) ==
    /\ req[r].pc = "done"
    /\ req' = [req EXCEPT ![r] = IdleReq]
    /\ UNCHANGED <<clock, client, up, mode, pk, table, dbFile, tmpFile, hist>>

(***************************************************************************)
(* Specifications.  Requests are served one at a time (spec section 5:     *)
(* single request-response execution per operation) except in FileSpec.    *)
(***************************************************************************)
Signed == {"u1"}
TwoOwners == Users

SaveDbRemote(r) ==
    \/ SaveDbDeleteRows(r)
    \/ SaveDbInsertRows(r)

SaveDbLocal(r) ==
    \/ SaveDbOpenTmp(r)
    \/ SaveDbWriteTmp(r)
    \/ SaveDbReadTmp(r)
    \/ SaveDbOpenDb(r)
    \/ SaveDbWriteDb(r)

\* whole-store operations: loadAll, saveAll
Next ==
    \/ LoadAll("r1", Signed)
    \/ SaveAll("r1", Signed, FALSE)
    \/ SaveDbRemote("r1")
    \/ SaveDbLocal("r1")
    \/ Finish("r1")

Spec == Init /\ [][Next]_vars

\* POST /import on a store that holds one of the two snapshots
ImportNext ==
    \/ SaveAll("r1", Signed, TRUE)
    \/ Import("r1", Signed)
    \/ SaveDbRemote("r1")
    \/ SaveDbLocal("r1")
    \/ Finish("r1")

ImportSpec == Init /\ [][ImportNext]_vars

\* the validator alone, on payloads that open with up to MaxBad rejected items
BadItem(who) == [Raw(Item(1, who, "comprar pan"), {}) EXCEPT !.list = "bogus"]

RECURSIVE Repeat(_, _)
Repeat(x, n) == IF n = 0 THEN <<>> ELSE <<x>> \o Repeat(x, n - 1)

LongPayloads(who) ==
    {NoItemsArray} \cup
    {[hasItems |-> TRUE, items |-> Repeat(BadItem(who), n) \o tail] :
        n \in 0..MaxBad, tail \in SeqsUpTo(RawItems(who), MaxLen)}

\* validateAndNormalizeImportPayload(req.body, sanitizeInput), as POST /import
\* calls it: the items it returns, or the ImportValidationError it throws
Validate(r, U) ==
    /\ req[r].pc = "idle"
    /\ \E user \in RequestUsers(U) :
        \E payload \in LongPayloads(ownerForReq(user)) :
            LET v == validateAndNormalizeImportPayload(payload)
                q == [Begin(r, "validate", user) EXCEPT
                          !.payload = payload, !.out = v.items, !.details = v.details]
            IN req' = [req EXCEPT ![r] =
                          Done(q, IF v.ok THEN Ok ELSE "ImportValidationError")]
    /\ UNCHANGED <<clock, client, up, mode, pk, table, dbFile, tmpFile, hist>>

ValidateNext ==
    \/ Validate("r1", Signed)
    \/ Finish("r1")

ValidateSpec == Init /\ [][ValidateNext]_vars

(***************************************************************************)
(* The duplicate guard of POST /collect/add.                               *)
(***************************************************************************)
\* String(i.input || '').trim().toLowerCase(), on the sample texts
Fold(text) == IF text \in {"Comprar Pan", Padded} THEN "comprar pan" ELSE text

\* the guard's window: 3000 ms
DUPLICATE_WINDOW == 3

Abs(n) == IF n < 0 THEN 0 - n ELSE n

\* mutant of isRecentDuplicate: the window includes its end
isRecentDuplicate_Inclusive(it, input, t) ==
    /\ it.list = "collect"
    /\ it.status # "done"
    /\ Fold(it.input) = Fold(input)
    /\ Abs(t - it.createdAt) <= DUPLICATE_WINDOW

\* the predicate of the guard's find
isRecentDuplicate(it, input, t) ==
    /\ it.list = "collect"
    /\ it.status # "done"
    /\ Fold(it.input) = Fold(input)
    /\ Abs(t - it.createdAt) < DUPLICATE_WINDOW

\* findRecentDuplicate(input, {owner}): the first such item of the owner, or
\* null (the empty list)
findRecentDuplicate(input, owner, t) ==
    LET items == IF isStoreSupabaseMode THEN RowsToSeq(RowsOfOwner(table, owner))
                 ELSE LoadDbLocal(dbFile).items
        found == {k \in 1..Len(items) : isRecentDuplicate(items[k], input, t)}
    IN IF found = {} THEN <<>>
       ELSE <<items[CHOOSE k \in found : \A l \in found : k <= l]>>

\* the texts posted to /collect/add, trimmed by sanitizeTextField
CallTexts == {"comprar pan", "Comprar Pan", "llamar a Ana"}

\* stores to look into: items of both texts, in collect or not, done or not,
\* created at second 0 or 1
DupItems(who) ==
    {[Item(i, who, "comprar pan") EXCEPT
          !.input = inp, !.list = ls[1], !.status = ls[2], !.createdAt = c] :
        i \in Ids, inp \in {"Comprar Pan", "llamar a Ana"}, c \in 0..1,
        ls \in {<<"collect", "unprocessed">>, <<"collect", "done">>, <<"hacer", "processed">>}}

DupStores(who) == {s \in SeqsUpTo(DupItems(who), MaxLen) : ~HasDupIds(s)}

DupInit ==
    /\ mode \in {"local", "supabase"}
    /\ pk = "id,owner"
    /\ \E items \in DupStores(IF mode = "local" THEN SUPABASE_OWNER ELSE "u1") :
        /\ table = IF mode = "local" THEN {}
                   ELSE {Row(items[k], "u1") : k \in 1..Len(items)}
        /\ dbFile = IF mode = "local" THEN Stringify([version |-> 1, items |-> items])
                    ELSE Missing
    /\ tmpFile = Missing
    /\ req = [r \in Reqs |-> IdleReq]
    /\ hist = NoHist
    /\ client = NoClient
    /\ up = NoUpsert
    /\ clock = 0

\* a second passes
Tick ==
    /\ clock < MaxTime
    /\ clock' = clock + 1
    /\ UNCHANGED <<mode, pk, table, dbFile, tmpFile, req, hist, client, up>>

\* the guard of POST /collect/add: findRecentDuplicate(input, {owner})
FindDuplicate(r, U) ==
    /\ req[r].pc = "idle"
    /\ \E user \in RequestUsers(U), input \in CallTexts :
        req' = [req EXCEPT ![r] =
                   Done([Begin(r, "findDuplicate", user) EXCEPT
                             !.text = input, !.at = clock,
                             !.out = findRecentDuplicate(input, ownerForReq(user), clock)],
                        Ok)]
    /\ UNCHANGED <<clock, client, up, mode, pk, table, dbFile, tmpFile, hist>>

(***************************************************************************)
(* The routes that change one item (src/server.js) and the functions of    *)
(* src/src/services/gtd-service.js they call.  A patch is a record of the  *)
(* fields it sets; fields of the source that the claims do not speak of    *)
(* (title, kind, estimateMin, objective, updatedAt, ...) are left out; 0   *)
(* stands for a number that is not there.                                  *)
(***************************************************************************)
\* cryptoRandomId(), randomId(): 12 or 8 random bytes; the ids they can
\* return are taken to be the ids that are not in use
cryptoRandomId == Ids \ ({t.id : t \in table} \cup IdsOf(LoadDbLocal(dbFile).items))

randomId(subtasks) == SubIds \ {subtasks[k].id : k \in 1..Len(subtasks)}

newItem(input, id, who) ==
    [NoItem EXCEPT !.id = id, !.who = who, !.input = input, !.list = "inbox",
                   !.status = "unprocessed", !.createdAt = clock]

\* {...patch, ...more}
Spread(patch, more) ==
    [k \in DOMAIN patch \cup DOMAIN more |-> IF k \in DOMAIN more THEN more[k] ELSE patch[k]]

\* {...item, ...patch, updatedAt}
updateItem(item, patch) == Spread(item, patch)

\* an object without fields: the default of a patch
NoPatch == [k \in {} |-> 0]

\* an object as the store keeps it and gives it back: a field that the
\* object does not have reads as undefined (0, "", <<>>, as in NoItem)
AsItem(object) ==
    [k \in DOMAIN NoItem |-> IF k \in DOMAIN object THEN object[k] ELSE NoItem[k]]

\* patch.field ?? item.field ?? fallback
Coalesce(patch, item, field, fallback) ==
    IF field \in DOMAIN patch /\ patch[field] # 0 THEN patch[field]
    ELSE IF item[field] # 0 THEN item[field]
    ELSE fallback

withHacerMeta(item, patch) ==
    LET urgency == Coalesce(patch, item, "urgency", 3)
        importance == Coalesce(patch, item, "importance", 3)
    IN Spread(patch, [urgency |-> urgency, importance |-> importance,
                      priorityScore |-> urgency * importance])

withDesglosarMeta(item, patch) ==
    Spread(patch, [subtasks |-> IF "subtasks" \in DOMAIN patch THEN patch.subtasks
                                ELSE item.subtasks])

DESTINATIONS == {"hacer", "agendar", "delegar", "desglosar", "no-hacer"}

\* i.id === id, and i.list === list where the route asks for a list ("" where
\* it does not)
Matches(it, id, list) == it.id = id /\ (list = "" \/ it.list = list)

\* (db.items || []).findIndex(i => i.id === id && i.list === list)
IndexOf(items, id, list) ==
    LET found == {k \in 1..Len(items) : Matches(items[k], id, list)}
    IN IF found = {} THEN 0 ELSE CHOOSE k \in found : \A l \in found : k <= l

\* the item a route works on: loadReqItemById and the test of its list on the
\* remote table, findIndex on the loaded db on the file; none: <<>>
CurrentItem(id, list, owner) ==
    IF isStoreSupabaseMode
    THEN LET got == loadItemById(table, id, owner)
         IN IF got # <<>> /\ Matches(got[1], id, list) THEN <<got[1]>> ELSE <<>>
    ELSE LET items == LoadDbLocal(dbFile).items
             idx == IndexOf(items, id, list)
         IN IF idx = 0 THEN <<>> ELSE <<items[idx]>>

\* the route redirects or answers 404 without a change
Redirect == "redirect"

\* mutant of ReplaceAt: the changed item is put in front, the old one stays
ReplaceAt_Copy(items, idx, next) == <<next>> \o items

\* db.items[idx] = next
ReplaceAt(items, idx, next) == [items EXCEPT ![idx] = next]

\* saveItem for an object that may have lost its id: id is the primary key of
\* gtd_items, a row without it is refused (23502) before any conflict target
\* is looked at
saveItemRow(T, item, owner, f1, f2) ==
    IF item.id = 0 THEN [table |-> T, err |-> "23502", calls |-> <<>>]
    ELSE saveItem(T, item, owner, f1, f2)

\* the end of a route that changes one item: saveReqItem(req, next) on the
\* remote table; db.items[idx] = next and saveReqItem(req, next, db) on the file
SaveNext(r, q, list, next, f1, f2) ==
    IF isStoreSupabaseMode
    THEN LET res == saveItemRow(table, AsItem(next), ownerForReq(q.user), f1, f2)
         IN /\ table' = res.table
            /\ req' = [req EXCEPT ![r] =
                          Done([q EXCEPT !.item = AsItem(next), !.calls = res.calls], res.err)]
    ELSE LET items == LoadDbLocal(dbFile).items
         IN /\ f1 = Ok /\ f2 = Ok
            /\ table' = table
            /\ req' = [req EXCEPT ![r] =
                  [q EXCEPT !.pc = "save", !.item = AsItem(next),
                            !.items = ReplaceAt(items, IndexOf(items, q.id, list),
                                                AsItem(next))]]

\* a route that found no item to work on
NoChange(r, q) ==
    /\ table' = table
    /\ req' = [req EXCEPT ![r] = Done(q, Redirect)]

\* POST /collect/add, for the texts the forms post
CollectAdd(r, U, inputs) ==
    /\ req[r].pc = "idle"
    /\ \E user \in RequestUsers(U), input \in inputs, f1 \in Faults, f2 \in Faults :
        LET owner == ownerForReq(user)
            q == [Begin(r, "collectAdd", user) EXCEPT !.text = input, !.at = clock]
            recentDuplicate == findRecentDuplicate(input, owner, clock)
        IN IF recentDuplicate # <<>>
           THEN /\ f1 = Ok /\ f2 = Ok
                /\ table' = table
                /\ req' = [req EXCEPT ![r] = Done([q EXCEPT !.out = recentDuplicate], Ok)]
           ELSE \E id \in cryptoRandomId :
                LET item == updateItem(newItem(input, id, owner),
                                       [list |-> "collect", status |-> "unprocessed"])
                IN IF isStoreSupabaseMode
                   THEN LET res == saveItem(table, item, owner, f1, f2)
                        IN /\ table' = res.table
                           /\ req' = [req EXCEPT ![r] =
                                 Done([q EXCEPT !.id = id, !.item = item, !.calls = res.calls],
                                      res.err)]
                   ELSE /\ f1 = Ok /\ f2 = Ok
                        /\ Len(LoadDbLocal(dbFile).items) < MaxStore
                        /\ table' = table
                        /\ req' = [req EXCEPT ![r] =
                              [q EXCEPT !.pc = "save", !.id = id, !.item = item,
                                        !.items = <<item>> \o LoadDbLocal(dbFile).items]]
    /\ UNCHANGED <<clock, client, up, mode, pk, dbFile, tmpFile, hist>>

\* the patch of POST /collect/:id/send
SendPatch(current, destination) ==
    LET basePatch == [list |-> destination, status |-> "processed"]
    IN IF destination = "hacer" THEN withHacerMeta(current, basePatch)
       ELSE IF destination = "desglosar" THEN withDesglosarMeta(current, basePatch)
       ELSE basePatch

\* POST /collect/:id/send, for the destinations the forms post
Send(r, U, destinations) ==
    /\ req[r].pc = "idle"
    /\ \E user \in RequestUsers(U), id \in Ids, destination \in destinations \cap DESTINATIONS,
          f1 \in Faults, f2 \in Faults :
        LET q == [Begin(r, "send", user) EXCEPT !.id = id, !.text = destination]
            current == CurrentItem(id, "", ownerForReq(user))
        IN IF current = <<>>
           THEN f1 = Ok /\ f2 = Ok /\ NoChange(r, q)
           ELSE SaveNext(r, q, "", updateItem(current[1], SendPatch(current[1], destination)),
                         f1, f2)
    /\ UNCHANGED <<clock, client, up, mode, pk, dbFile, tmpFile, hist>>

\* the urgency and importance a form posts; 0: the field is empty
Scores == {<<0, 0>>, <<5, 4>>}

\* POST /hacer/:id/update
HacerUpdate(r, U) ==
    /\ req[r].pc = "idle"
    /\ \E user \in RequestUsers(U), id \in Ids, score \in Scores,
          f1 \in Faults, f2 \in Faults :
        LET q == [Begin(r, "hacerUpdate", user) EXCEPT !.id = id]
            urgency == score[1]
            importance == score[2]
            current == CurrentItem(id, "hacer", ownerForReq(user))
        IN IF current = <<>>
           THEN f1 = Ok /\ f2 = Ok /\ NoChange(r, q)
           ELSE LET patch == [urgency |-> Coalesce([urgency |-> urgency], current[1],
                                                   "urgency", 3),
                              importance |-> Coalesce([importance |-> importance], current[1],
                                                      "importance", 3)]
                IN SaveNext(r, q, "hacer",
                            updateItem(current[1], withHacerMeta(current[1], patch)), f1, f2)
    /\ UNCHANGED <<clock, client, up, mode, pk, dbFile, tmpFile, hist>>

\* POST /hacer/:id/complete
HacerComplete(r, U) ==
    /\ req[r].pc = "idle"
    /\ \E user \in RequestUsers(U), id \in Ids, f1 \in Faults, f2 \in Faults :
        LET q == [Begin(r, "hacerComplete", user) EXCEPT !.id = id]
            current == CurrentItem(id, "hacer", ownerForReq(user))
        IN IF current = <<>>
           THEN f1 = Ok /\ f2 = Ok /\ NoChange(r, q)
           ELSE SaveNext(r, q, "hacer", updateItem(current[1], [status |-> "done"]), f1, f2)
    /\ UNCHANGED <<clock, client, up, mode, pk, dbFile, tmpFile, hist>>

\* the texts of subtasks
SubTexts == {"llamar a Ana"}

\* subtasks.findIndex(s => String(s.id) === subId)
SubIndex(subtasks, subId) ==
    LET found == {k \in 1..Len(subtasks) : subtasks[k].id = subId}
    IN IF found = {} THEN 0 ELSE CHOOSE k \in found : \A l \in found : k <= l

\* the subtask routes: const current = withDesglosarMeta(currentRaw), then
\* updateItem(current, withDesglosarMeta(current, {subtasks}))
WithSubtasks(currentRaw, subtasks) ==
    LET current == withDesglosarMeta(currentRaw, NoPatch)
    IN updateItem(current, withDesglosarMeta(current, [subtasks |-> subtasks]))

\* POST /desglosar/:id/subtasks/add
SubtaskAdd(r, U) ==
    /\ req[r].pc = "idle"
    /\ \E user \in RequestUsers(U), id \in Ids, text \in SubTexts,
          f1 \in Faults, f2 \in Faults :
        LET q == [Begin(r, "subtaskAdd", user) EXCEPT !.id = id, !.text = text]
            currentRaw == CurrentItem(id, "desglosar", ownerForReq(user))
        IN IF currentRaw = <<>>
           THEN f1 = Ok /\ f2 = Ok /\ NoChange(r, q)
           ELSE \E subId \in randomId(currentRaw[1].subtasks) :
                SaveNext(r, q, "desglosar",
                         WithSubtasks(currentRaw[1],
                                      Append(currentRaw[1].subtasks,
                                             Subtask(subId, text, "open"))),
                         f1, f2)
    /\ UNCHANGED <<clock, client, up, mode, pk, dbFile, tmpFile, hist>>

\* the destinations of a subtask
SubDestinations == {"hacer", "agendar", "delegar"}

\* POST /desglosar/:id/subtasks/:subId/send: the task made of the subtask
NewTask(text, id, who, destination, projectId, subId) ==
    LET newTask == updateItem(newItem(text, id, who),
                              [list |-> destination, status |-> "processed",
                               sourceProjectId |-> projectId, sourceSubtaskId |-> subId])
    IN IF destination = "hacer" THEN updateItem(newTask, withHacerMeta(newTask, NoPatch))
       ELSE newTask

\* POST /desglosar/:id/subtasks/:subId/send, for the destinations the forms post
SubtaskSend(r, U, destinations) ==
    /\ req[r].pc = "idle"
    /\ \E user \in RequestUsers(U), id \in Ids, subId \in SubIds,
          destination \in destinations \cap SubDestinations,
          f1 \in Faults, f2 \in Faults :
        LET owner == ownerForReq(user)
            q == [Begin(r, "subtaskSend", user) EXCEPT !.id = id, !.n = subId,
                                                        !.text = destination]
            currentRaw == CurrentItem(id, "desglosar", owner)
            subtasks == IF currentRaw = <<>> THEN <<>> ELSE currentRaw[1].subtasks
            subIdx == SubIndex(subtasks, subId)
        IN IF currentRaw = <<>> \/ subIdx = 0 \/ sanitizeInput(subtasks[subIdx].text) = ""
           THEN f1 = Ok /\ f2 = Ok /\ NoChange(r, q)
           ELSE \E newId \in cryptoRandomId :
                LET newTask == NewTask(sanitizeInput(subtasks[subIdx].text), newId, owner,
                                       destination, id, subId)
                    updatedProject ==
                        AsItem(WithSubtasks(currentRaw[1],
                                            [subtasks EXCEPT ![subIdx] =
                                                [@ EXCEPT !.status = "sent",
                                                          !.sentTo = destination,
                                                          !.sentItemId = newId]]))
                IN IF isStoreSupabaseMode
                   THEN LET first == saveItemRow(table, updatedProject, owner, f1, f1)
                            second == saveItemRow(first.table, newTask, owner, f2, f2)
                        IN IF first.err # Ok
                           THEN /\ f2 = Ok
                                /\ table' = first.table
                                /\ req' = [req EXCEPT ![r] =
                                      Done([q EXCEPT !.item = updatedProject], first.err)]
                           ELSE /\ table' = second.table
                                /\ req' = [req EXCEPT ![r] =
                                      Done([q EXCEPT !.item = updatedProject], second.err)]
                   ELSE LET items == LoadDbLocal(dbFile).items
                        IN /\ f1 = Ok /\ f2 = Ok
                           /\ Len(items) < MaxStore
                           /\ table' = table
                           /\ req' = [req EXCEPT ![r] =
                                 [q EXCEPT !.pc = "save", !.item = updatedProject,
                                     !.items = <<newTask>> \o
                                         ReplaceAt(items, IndexOf(items, id, "desglosar"),
                                                   updatedProject)]]
    /\ UNCHANGED <<clock, client, up, mode, pk, dbFile, tmpFile, hist>>

\* the subtasks after complete, update and delete of the subtask subId
SubtasksAfter(op, subtasks, subId, text) ==
    LET subIdx == SubIndex(subtasks, subId)
    IN IF op = "subtaskComplete" THEN [subtasks EXCEPT ![subIdx].status = "done"]
       ELSE IF op = "subtaskUpdate" THEN [subtasks EXCEPT ![subIdx].text = text]
       ELSE Filter(subtasks, {st \in Range(subtasks) : st.id # subId})

\* POST /desglosar/:id/subtasks/:subId/complete, .../update and .../delete
SubtaskChange(r, U) ==
    /\ req[r].pc = "idle"
    /\ \E user \in RequestUsers(U), id \in Ids, subId \in SubIds, text \in Inputs,
          op \in {"subtaskComplete", "subtaskUpdate", "subtaskDelete"},
          f1 \in Faults, f2 \in Faults :
        LET q == [Begin(r, op, user) EXCEPT !.id = id, !.n = subId, !.text = text]
            currentRaw == CurrentItem(id, "desglosar", ownerForReq(user))
            subtasks == IF currentRaw = <<>> THEN <<>> ELSE currentRaw[1].subtasks
            subIdx == SubIndex(subtasks, subId)
        IN IF \/ currentRaw = <<>>
              \/ op # "subtaskDelete" /\ subIdx = 0
              \/ op = "subtaskUpdate" /\ subIdx # 0 /\ subtasks[subIdx].status = "sent"
           THEN f1 = Ok /\ f2 = Ok /\ NoChange(r, q)
           ELSE SaveNext(r, q, "desglosar",
                         WithSubtasks(currentRaw[1], SubtasksAfter(op, subtasks, subId, text)),
                         f1, f2)
    /\ UNCHANGED <<clock, client, up, mode, pk, dbFile, tmpFile, hist>>

\* the tags field of a form as String.split(',') cuts it
TagInputs ==
    {<<"casa">>, <<"Casa", "casa">>, <<" ", LongTag, "trabajo">>,
     <<"a", "b", "c", "d", "e", "f">>}

\* t.trim().toLowerCase()
TrimLower(t) == IF t = " " THEN "" ELSE Lower(t)

\* .slice(0, 5)
Slice5(s) == IF Len(s) <= 5 THEN s ELSE SubSeq(s, 1, 5)

\* POST /items/:id/tags: split, trim, lower-case, filter, slice
ParseTags(tagsInput) ==
    LET lowered == [k \in 1..Len(tagsInput) |-> TrimLower(tagsInput[k])]
    IN Slice5(Filter(lowered, {t \in Range(lowered) : t # "" /\ t # LongTag}))

\* POST /items/:id/tags
TagsUpdate(r, U) ==
    /\ req[r].pc = "idle"
    /\ \E user \in RequestUsers(U), id \in Ids, tagsInput \in TagInputs,
          f1 \in Faults, f2 \in Faults :
        LET q == [Begin(r, "tags", user) EXCEPT !.id = id]
            current == CurrentItem(id, "", ownerForReq(user))
        IN IF current = <<>>
           THEN f1 = Ok /\ f2 = Ok /\ NoChange(r, q)
           ELSE SaveNext(r, q, "", updateItem(current[1], [tags |-> ParseTags(tagsInput)]),
                         f1, f2)
    /\ UNCHANGED <<clock, client, up, mode, pk, dbFile, tmpFile, hist>>

\* collect and send
SendNext ==
    \/ CollectAdd("r1", Signed, {"comprar pan"})
    \/ Send("r1", Signed, DESTINATIONS)
    \/ SaveDbLocal("r1")
    \/ Finish("r1")

SendSpec == Init /\ [][SendNext]_vars

\* the routes that give a task its scores
HacerNext ==
    \/ CollectAdd("r1", Signed, Inputs)
    \/ Send("r1", Signed, {"hacer", "agendar"})
    \/ HacerUpdate("r1", Signed)
    \/ ImportFrom("r1", Signed, "hacer")
    \/ SaveDbRemote("r1")
    \/ SaveDbLocal("r1")
    \/ Finish("r1")

HacerSpec == Init /\ [][HacerNext]_vars

\* the routes that add and remove items
GtdNext ==
    \/ CollectAdd("r1", Signed, Inputs)
    \/ Send("r1", Signed, {"desglosar"})
    \/ SubtaskSend("r1", Signed, {"hacer"})
    \/ ImportFrom("r1", Signed, "gtd")
    \/ DeleteOne("r1", Signed)
    \/ SaveDbLocal("r1")
    \/ Finish("r1")

\* on the file backend
GtdInit == Init /\ mode = "local"

GtdSpec == GtdInit /\ [][GtdNext]_vars

\* the routes of the subtasks of a project
SubNext ==
    \/ SubtaskAdd("r1", Signed)
    \/ SubtaskSend("r1", Signed, SubDestinations)
    \/ SubtaskChange("r1", Signed)
    \/ ImportFrom("r1", Signed, "subtasks")
    \/ SaveDbRemote("r1")
    \/ SaveDbLocal("r1")
    \/ Finish("r1")

SubSpec == Init /\ [][SubNext]_vars

\* a project with an open subtask and the sending of its subtasks; without
\* the auth client attachAuth gives every request the user SUPABASE_OWNER,
\* on the remote table too
LinkNext ==
    \/ ImportFrom("r1", {SUPABASE_OWNER}, "gtd")
    \/ SubtaskSend("r1", {SUPABASE_OWNER}, SubDestinations)
    \/ SaveDbRemote("r1")
    \/ SaveDbLocal("r1")
    \/ Finish("r1")

LinkSpec == Init /\ [][LinkNext]_vars

\* the routes that set tags
TagNext ==
    \/ CollectAdd("r1", Signed, Inputs)
    \/ TagsUpdate("r1", Signed)
    \/ ImportFrom("r1", Signed, "tags")
    \/ SaveDbRemote("r1")
    \/ SaveDbLocal("r1")
    \/ Finish("r1")

TagSpec == Init /\ [][TagNext]_vars

\* the routes that complete a task and that send an item to a list
DoneNext ==
    \/ CollectAdd("r1", Signed, {"comprar pan"})
    \/ Send("r1", Signed, {"hacer", "agendar"})
    \/ HacerComplete("r1", Signed)
    \/ SaveDbLocal("r1")
    \/ Finish("r1")

DoneSpec == Init /\ [][DoneNext]_vars

(***************************************************************************)
(* Two requests of one user on the remote table: saveReqItem and           *)
(* deleteReqItem each await one statement, which the table executes whole. *)
(***************************************************************************)
\* an id that is stored and that no call targets
KeptId == MaxId + 1

RowTables ==
    {{Row(Item(i, "u1", "comprar pan"), "u1") : i \in S}
        \cup {Row(Item(KeptId, "u1", "llamar a Ana"), "u1")} : S \in SUBSET Ids}

RowInit ==
    /\ mode = "supabase"
    /\ pk \in {"id", "id,owner"}
    /\ table \in RowTables
    /\ dbFile = Missing
    /\ tmpFile = Missing
    /\ req = [r \in Reqs |-> IdleReq]
    /\ hist = NoHist
    /\ client = NoClient
    /\ up = NoUpsert
    /\ clock = 0

\* saveReqItem(req, item) up to its await of saveItem(item, {owner})
SaveReqItemCall(r, U) ==
    /\ req[r].pc = "idle"
    /\ isStoreSupabaseMode
    /\ \E user \in RequestUsers(U) :
        \E item \in ItemsOf(ownerForReq(user)) :
            req' = [req EXCEPT ![r] =
                       [Begin(r, "saveOne", user) EXCEPT
                            !.pc = "saveItem", !.id = item.id, !.item = item,
                            !.items = <<item>>]]
    /\ UNCHANGED <<clock, client, up, mode, pk, table, dbFile, tmpFile, hist>>

\* saveItem(item, {owner}) executes on the table and saveReqItem returns
SaveReqItemDone(r) ==
    /\ req[r].pc = "saveItem"
    /\ \E f1 \in Faults, f2 \in Faults :
        LET res == saveItem(table, req[r].item, ownerForReq(req[r].user), f1, f2)
        IN /\ table' = res.table
           /\ req' = [req EXCEPT ![r] = Done([@ EXCEPT !.calls = res.calls], res.err)]
    /\ UNCHANGED <<clock, client, up, mode, pk, dbFile, tmpFile, hist>>

\* deleteReqItem(req, id) up to its await of deleteItemById(id, {owner})
DeleteReqItemCall(r, U) ==
    /\ req[r].pc = "idle"
    /\ isStoreSupabaseMode
    /\ \E user \in RequestUsers(U), id \in Ids :
        req' = [req EXCEPT ![r] =
                   [Begin(r, "deleteOne", user) EXCEPT !.pc = "deleteItem", !.id = id]]
    /\ UNCHANGED <<clock, client, up, mode, pk, table, dbFile, tmpFile, hist>>

\* deleteItemById(id, {owner}) executes on the table and deleteReqItem returns
DeleteReqItemDone(r) ==
    /\ req[r].pc = "deleteItem"
    /\ \E fault \in Faults :
        /\ table' = IF fault = Ok
                    THEN deleteItemById(table, req[r].id, ownerForReq(req[r].user))
                    ELSE table
        /\ req' = [req EXCEPT ![r] = Done(@, fault)]
    /\ UNCHANGED <<clock, client, up, mode, pk, dbFile, tmpFile, hist>>

\* the calls are looked at in pairs: the requests are answered once none is
\* in flight, so that two finished requests are two calls with no third
\* call between them
RespondAll ==
    /\ \A r \in Reqs : req[r].pc \in {"idle", "done"}
    /\ \E r \in Reqs : req[r].pc = "done"
    /\ req' = [r \in Reqs |-> IdleReq]
    /\ UNCHANGED <<clock, client, up, mode, pk, table, dbFile, tmpFile, hist>>

RowNext ==
    \/ \E r \in Reqs :
        \/ SaveReqItemCall(r, Signed)
        \/ SaveReqItemDone(r)
        \/ DeleteReqItemCall(r, Signed)
        \/ DeleteReqItemDone(r)
    \/ RespondAll

RowSpec == RowInit /\ [][RowNext]_vars

DupNext ==
    \/ Tick
    \/ FindDuplicate("r1", Signed)
    \/ Finish("r1")

DupSpec == DupInit /\ [][DupNext]_vars

(***************************************************************************)
(* POST /collect/add await by await, for requests that overlap: the guard  *)
(* (await findRecentDuplicate), then newItem, then the save (await         *)
(* saveReqItem on the remote table; await loadReqDb and await saveReqDb on *)
(* the file).                                                              *)
(***************************************************************************)
\* await findRecentDuplicate(input, {owner}): answered with the duplicate
\* (deduped: true), or on to the new item
CollectAddCheck(r, U, inputs) ==
    /\ req[r].pc = "idle"
    /\ \E user \in RequestUsers(U), input \in inputs :
        LET q == [Begin(r, "collectAdd", user) EXCEPT !.text = input, !.at = clock]
            recentDuplicate == findRecentDuplicate(input, ownerForReq(user), clock)
        IN req' = [req EXCEPT ![r] =
                      IF recentDuplicate # <<>> THEN Done([q EXCEPT !.out = recentDuplicate], Ok)
                      ELSE [q EXCEPT !.pc = "collectNew"]]
    /\ UNCHANGED <<clock, client, up, mode, pk, table, dbFile, tmpFile, hist>>

\* updateItem(newItem({input}), {list: 'collect', status: 'unprocessed'}); two
\* requests do not draw the same random id
CollectAddNew(r) ==
    /\ req[r].pc = "collectNew"
    /\ \E id \in cryptoRandomId \ {req[s].id : s \in Reqs} :
        LET item == updateItem(newItem(req[r].text, id, ownerForReq(req[r].user)),
                               [list |-> "collect", status |-> "unprocessed"])
        IN req' = [req EXCEPT ![r] = [@ EXCEPT !.pc = "collectStore", !.id = id, !.item = item]]
    /\ UNCHANGED <<clock, client, up, mode, pk, table, dbFile, tmpFile, hist>>

\* await saveReqItem(req, item) on the remote table; await loadReqDb(req) and
\* db.items = [item, ...db.items] on the file, saveReqDb follows
CollectAddStore(r) ==
    /\ req[r].pc = "collectStore"
    /\ \E f1 \in Faults, f2 \in Faults :
        IF isStoreSupabaseMode
        THEN LET res == saveItem(table, req[r].item, ownerForReq(req[r].user), f1, f2)
             IN /\ table' = res.table
                /\ req' = [req EXCEPT ![r] = Done([@ EXCEPT !.calls = res.calls], res.err)]
        ELSE /\ f1 = Ok /\ f2 = Ok
             /\ table' = table
             /\ req' = [req EXCEPT ![r] =
                   [@ EXCEPT !.pc = "save",
                             !.items = <<req[r].item>> \o LoadDbLocal(dbFile).items]]
    /\ UNCHANGED <<clock, client, up, mode, pk, dbFile, tmpFile, hist>>

\* the form is submitted twice, or the request is retried: two requests,
\* each looked at until it is answered
DedupNext ==
    \/ Tick
    \/ \E r \in Reqs :
        \/ CollectAddCheck(r, Signed, {"comprar pan", "Comprar Pan"})
        \/ CollectAddNew(r)
        \/ CollectAddStore(r)
        \/ SaveDbLocal(r)

DedupSpec == Init /\ [][DedupNext]_vars

\* the data file holds one item before the requests start
KeptItems == <<Item(1, SUPABASE_OWNER, "llamar a Ana")>>

KeepInit ==
    /\ mode = "local"
    /\ pk = "id,owner"
    /\ table = {}
    /\ dbFile = Stringify([version |-> 1, items |-> KeptItems])
    /\ tmpFile = Missing
    /\ req = [r \in Reqs |-> IdleReq]
    /\ hist = NoHist
    /\ client = NoClient
    /\ up = NoUpsert
    /\ clock = 0

\* two requests on the data file, neither of which deletes: collect add
\* (loadReqDb, then saveReqDb) and saveReqItem (the same pair); each is looked
\* at until it is answered
KeepNext ==
    \E r \in Reqs :
        \/ CollectAddCheck(r, Signed, {"comprar pan"})
        \/ CollectAddNew(r)
        \/ CollectAddStore(r)
        \/ SaveOne(r, Signed)
        \/ SaveDbLocal(r)

KeepSpec == KeepInit /\ [][KeepNext]_vars

\* POST /import while another request saves an item: two requests, each
\* looked at until it is answered
ImportRaceNext ==
    \/ ImportFrom("r1", Signed, "gtd")
    \/ SaveOne("r2", Signed)
    \/ \E r \in Reqs :
        \/ SaveDbRemote(r)
        \/ SaveDbLocal(r)

ImportRaceSpec == Init /\ [][ImportRaceNext]_vars

\* the validator called twice, at different times and on different stores:
\* payloads of items with createdAt (0) and without it (-1), and a payload
\* that is rejected
DatedRaws(who) ==
    {Raw(Item(1, who, "comprar pan"), {}),
     [Raw(Item(2, who, "comprar pan"), {}) EXCEPT !.createdAt = -1]}

DatedPayloads(who) ==
    {NoItemsArray, [hasItems |-> TRUE, items |-> <<BadItem(who)>>]}
        \cup {[hasItems |-> TRUE, items |-> s] :
                 s \in {t \in SeqsUpTo(DatedRaws(who), 2) : ~HasDupIds(t)}}

\* validateAndNormalizeImportPayload(req.body, sanitizeInput) at the time clock
ValidateAt(r, U) ==
    /\ req[r].pc = "idle"
    /\ \E user \in RequestUsers(U) :
        \E payload \in DatedPayloads(ownerForReq(user)) :
            LET v == validateAndNormalizeImportPayload(payload)
                q == [Begin(r, "validate", user) EXCEPT
                          !.payload = payload, !.out = v.items, !.details = v.details,
                          !.at = clock]
            IN req' = [req EXCEPT ![r] =
                          Done(q, IF v.ok THEN Ok ELSE "ImportValidationError")]
    /\ UNCHANGED <<clock, client, up, mode, pk, table, dbFile, tmpFile, hist>>

\* the store holds one of the two snapshots when the calls begin
DetInit ==
    /\ mode \in {"local", "supabase"}
    /\ pk = "id,owner"
    /\ \E items \in Snapshots(IF mode = "local" THEN SUPABASE_OWNER ELSE "u1") :
        /\ table = IF mode = "local" THEN {}
                   ELSE {Row(items[k], "u1") : k \in 1..Len(items)}
        /\ dbFile = IF mode = "local" THEN Stringify([version |-> 1, items |-> items])
                    ELSE Missing
    /\ tmpFile = Missing
    /\ req = [r \in Reqs |-> IdleReq]
    /\ hist = NoHist
    /\ client = NoClient
    /\ up = NoUpsert
    /\ clock = 0

DetNext ==
    \/ Tick
    \/ DeleteOne("r1", Signed)
    \/ SaveDbLocal("r1")
    \/ \E r \in Reqs :
        \/ ValidateAt(r, Signed)
        \/ Respond(r)

DetSpec == DetInit /\ [][DetNext]_vars

(***************************************************************************)
(* userFacingPersistError (src/helpers/data-access.js, and its copy in     *)
(* server.js).  An error is its code and its message; of the message the   *)
(* model keeps the phrases it holds and whether it is written in capitals. *)
(***************************************************************************)
NoConstraint == "no unique or exclusion constraint"
PermissionDenied == "permission denied"
RowLevelSecurity == "row-level security"

SchemaMismatch == "La base de datos no tiene la configuracion esperada"
PermissionFailure == "No tienes permisos para guardar este item"
GenericFailure == "No se pudo guardar el item en este momento"

\* the errors a save can throw; code "" and no phrase: an error without code
\* and message, or no error object at all (err?.code || '')
PersistErrors ==
    [code : {"", "42P10", "42501", "23505"},
     phrases : SUBSET {NoConstraint, PermissionDenied, RowLevelSecurity},
     upper : BOOLEAN]

\* String(err?.message || '').toLowerCase()
toLowerCase(msg) == [msg EXCEPT !.upper = FALSE]

\* msg.includes(phrase), for a phrase written in small letters
includes(msg, phrase) == ~msg.upper /\ phrase \in msg.phrases

\* mutant of userFacingPersistError: the permission test comes first
userFacingPersistError_PermissionFirst(err) ==
    LET code == err.code
        msg == toLowerCase(err)
    IN IF code = "42501" \/ includes(msg, PermissionDenied) \/ includes(msg, RowLevelSecurity)
       THEN PermissionFailure
       ELSE IF code = "42P10" \/ includes(msg, NoConstraint)
       THEN SchemaMismatch
       ELSE GenericFailure

userFacingPersistError(err) ==
    LET code == err.code
        msg == toLowerCase(err)
    IN IF code = "42P10" \/ includes(msg, NoConstraint)
       THEN SchemaMismatch
       ELSE IF code = "42501" \/ includes(msg, PermissionDenied) \/ includes(msg, RowLevelSecurity)
       THEN PermissionFailure
       ELSE GenericFailure

\* the catch of POST /collect/add: the save threw err, the answer carries
\* userFacingPersistError(err)
PersistFailed(r, U) ==
    /\ req[r].pc = "idle"
    /\ \E user \in RequestUsers(U), err \in PersistErrors :
        req' = [req EXCEPT ![r] =
                   Done([Begin(r, "persistFailed", user) EXCEPT
                             !.thrown = err, !.text = userFacingPersistError(err)],
                        "persist_failed")]
    /\ UNCHANGED <<clock, client, up, mode, pk, table, dbFile, tmpFile, hist>>

PersistNext ==
    \/ PersistFailed("r1", Signed)
    \/ Finish("r1")

PersistSpec == Init /\ [][PersistNext]_vars

\* loadAll on a data file that may have been written by another hand
FileStates ==
    {Missing, Truncated, DocWithoutItems, DocWithNullItems}
        \cup {Stringify([version |-> 1, items |-> items]) : items \in Snapshots(SUPABASE_OWNER)}

LoadInit ==
    /\ mode = "local"
    /\ pk = "id,owner"
    /\ table = {}
    /\ dbFile \in FileStates
    /\ tmpFile = Missing
    /\ req = [r \in Reqs |-> IdleReq]
    /\ hist = NoHist
    /\ client = NoClient
    /\ up = NoUpsert
    /\ clock = 0

LoadNext ==
    \/ LoadAll("r1", Signed)
    \/ SaveOne("r1", Signed)
    \/ SaveDbLocal("r1")
    \/ Finish("r1")

LoadSpec == LoadInit /\ [][LoadNext]_vars

\* single-item operations: saveOne, deleteOne and the loads
ItemNext ==
    \/ LoadAll("r1", Signed)
    \/ LoadById("r1", Signed)
    \/ LoadByList("r1", Signed)
    \/ LoadByStatus("r1", Signed)
    \/ SaveOne("r1", Signed)
    \/ DeleteOne("r1", Signed)
    \/ SaveDbLocal("r1")
    \/ Finish("r1")

ItemSpec == Init /\ [][ItemNext]_vars

\* two owners on the remote table
IsoInit == Init /\ mode = "supabase"

IsoNext ==
    \/ LoadAll("r1", TwoOwners)
    \/ LoadById("r1", TwoOwners)
    \/ LoadByList("r1", TwoOwners)
    \/ LoadByStatus("r1", TwoOwners)
    \/ SaveAll("r1", TwoOwners, FALSE)
    \/ SaveOne("r1", TwoOwners)
    \/ SaveDbRemote("r1")
    \/ Finish("r1")

IsoSpec == IsoInit /\ [][IsoNext]_vars

\* two owners on the remote table: the saves, and imports of ids that the
\* other owner may use
OwnerNext ==
    \/ SaveOne("r1", TwoOwners)
    \/ ImportFrom("r1", TwoOwners, "gtd")
    \/ SaveDbRemote("r1")
    \/ Finish("r1")

OwnerSpec == IsoInit /\ [][OwnerNext]_vars

\* upsertWithConflictFallbackForClient on a scripted client
Answers == {Ok, "42P10", "42501", "23505"}

UpsertInit ==
    /\ mode = "supabase"
    /\ pk = "id,owner"
    /\ table = {}
    /\ dbFile = Missing
    /\ tmpFile = Missing
    /\ req = [r \in Reqs |-> IdleReq]
    /\ hist = NoHist
    /\ clock = 0
    /\ \E results \in SeqsUpTo(Answers, MaxScript) :
        client = [results |-> results, calls |-> <<>>]
    /\ \E item \in ItemsOf("u1") : up = UpsertStart({Row(item, "u1")})

\* makeClient's upsert(_rows, options)
ScriptAt(c, k) == IF k <= Len(c.results) THEN ErrorAt(c.results[k], k) ELSE NoError

ClientAnswer(c) == ScriptAt(c, Len(c.calls) + 1)

\* one await client.from('gtd_items').upsert(rows, {onConflict}) of the call
UpsertAttempt ==
    /\ up.status = "running"
    /\ up' = upsertWithConflictFallbackForClient(up, ClientAnswer(client))
    /\ client' = [client EXCEPT !.calls = Append(@, up'.calls[Len(up'.calls)])]
    /\ UNCHANGED <<clock, mode, pk, table, dbFile, tmpFile, req, hist>>

UpsertSpec == UpsertInit /\ [][UpsertAttempt]_vars

\* concurrent requests on the file backend, saving one of the two snapshots

FileInit == Init /\ mode = "local"

FileNext ==
    \E r \in Reqs :
        \/ LoadAll(r, Signed)
        \/ SaveAll(r, Signed, TRUE)
        \/ SaveDbLocal(r)
        \/ Respond(r)

FileSpec == FileInit /\ [][FileNext]_vars

(***************************************************************************)
(* Claims                                                                  *)
(***************************************************************************)
Loads == {"loadAll", "loadById", "loadByList", "loadByStatus"}
Returned(q, op) == q.pc = "done" /\ q.op = op /\ q.err = Ok

\* C1: a load call made for owner Y (loadAll, loadByList, loadByStatus,
\* loadById) never returns an item that was saved under another owner X; the
\* owner that scopes a load or a save is the one the caller passes.  (A
\* caller only saves items it wrote, so an item was saved under it.who.)
C1_OwnerIsolation ==
    \A r \in Reqs :
        (req[r].pc = "done" /\ req[r].op \in Loads /\ req[r].err = Ok)
            => \A k \in 1..Len(req[r].out) : req[r].out[k].who = ownerForReq(req[r].user)

\* C2: saveAll(owner, A), then saveAll(owner, B), then loadAll(owner) returns
\* exactly the items of B, on both backends
C2_SnapshotReplace ==
    \A r \in Reqs :
        (Returned(req[r], "loadAll") /\ hist.saves = 2 /\ hist.owner = ownerForReq(req[r].user))
            => /\ Range(req[r].out) = Range(hist.saved)
               /\ Len(req[r].out) = Len(hist.saved)

\* C2, its case: B was saved over an A that held an item B does not hold, and
\* the load that follows returned
C2_Witness ==
    \E r \in Reqs :
        /\ Returned(req[r], "loadAll") /\ hist.saves = 2 /\ hist.owner = ownerForReq(req[r].user)
        /\ hist.dropped /\ Len(hist.saved) > 0
        /\ isStoreSupabaseMode

C4_SaveAllKeepsCommonItems ==
    \A r \in Reqs :
        (req[r].op = "saveAll" /\ isStoreSupabaseMode)
            => LET o == ownerForReq(req[r].user)
                   before == Range(LoadDbRemote(req[r].pre.table, o).items)
                   now == Range(LoadDbRemote(table, o).items)
               IN \A it \in before : it \in Range(req[r].items) => it \in now

UpsertFinished == up.status \in {"ok", "failed"}

\* C5: the first upsert uses conflict target 'id,owner'; a second one, with
\* target 'id' and the same rows, is made if and only if the first failed with
\* 42P10; there is never a third, and exactly one when the first succeeds
C5_FallbackAttempts ==
    /\ Len(client.calls) <= 2
    /\ Len(client.calls) >= 1 => client.calls[1].onConflict = "id,owner"
    /\ Len(client.calls) = 2 =>
        /\ client.calls[2].onConflict = "id"
        /\ client.calls[2].rows = client.calls[1].rows
        /\ ScriptAt(client, 1).code = "42P10"
    /\ UpsertFinished =>
        /\ Len(client.calls) >= 1
        /\ (Len(client.calls) = 2 <=> ScriptAt(client, 1).code = "42P10")
        /\ (ScriptAt(client, 1) = NoError => Len(client.calls) = 1)

\* C5, its case: the first attempt failed with 42P10 and the fallback succeeded
C5_Witness ==
    /\ up.status = "ok"
    /\ Len(client.calls) = 2
    /\ ScriptAt(client, 1).code = "42P10"

\* C6: the call succeeds if and only if its last attempt returned no error;
\* when it fails it raises the error object of the last attempt made: the
\* first attempt's when that is not 42P10, the 'id' attempt's when both fail
C6_LastErrorRaised ==
    UpsertFinished =>
        LET n == Len(client.calls)
        IN /\ (up.status = "ok" <=> ScriptAt(client, n) = NoError)
           /\ up.status = "failed" =>
                /\ up.err = ScriptAt(client, n)
                /\ (ScriptAt(client, 1).code # "42P10" => n = 1 /\ up.err = ScriptAt(client, 1))
                /\ (ScriptAt(client, 1).code = "42P10" => n = 2 /\ up.err = ScriptAt(client, 2))

\* C6, its case: both attempts failed with 42P10 and the second error is raised
C6_Witness ==
    /\ up.status = "failed"
    /\ Len(client.calls) = 2
    /\ ScriptAt(client, 2).code = "42P10"
    /\ up.err.at = 2

\* the owner's store as a list: the payloads of its rows, or the file's items
StoredIn(T, f, owner) ==
    IF isStoreSupabaseMode THEN RowsToSeq(RowsOfOwner(T, owner)) ELSE LoadDbLocal(f).items
StoredBefore(q) == StoredIn(q.pre.table, q.pre.file, ownerForReq(q.user))
StoredNow(q) == StoredIn(table, dbFile, ownerForReq(q.user))
CountId(s, id) == Cardinality({k \in 1..Len(s) : s[k].id = id})

\* what loadAll returns from a store: loadDb on that table and that file
LoadedFrom(T, f, owner) ==
    IF isStoreSupabaseMode THEN LoadDbRemote(T, owner).items ELSE LoadDbLocal(f).items
LoadedBefore(q) == LoadedFrom(q.pre.table, q.pre.file, ownerForReq(q.user))
LoadedNow(q) == LoadedFrom(table, dbFile, ownerForReq(q.user))

\* C7: after saveOne(owner, item) the owner's store is the previous store with
\* the entry for item.id inserted or replaced by item: loadById(owner, item.id)
\* returns item, exactly one stored item has that id, and every other item of
\* the owner is unchanged
C7_SaveOneUpserts ==
    \A r \in Reqs :
        Returned(req[r], "saveOne") =>
            LET q == req[r]
                before == StoredBefore(q)
                now == StoredNow(q)
            IN /\ loadByIdResult(q.item.id, ownerForReq(q.user)) = <<q.item>>
               /\ CountId(now, q.item.id) = 1
               /\ Range(now) = {it \in Range(before) : it.id # q.item.id} \cup {q.item}
               /\ Len(now) = Len(before) + (IF q.item.id \in IdsOf(before) THEN 0 ELSE 1)

\* C7, its case: the item replaced a different item of the same id in a file
\* that also held another item
C7_Witness ==
    \E r \in Reqs :
        /\ Returned(req[r], "saveOne") /\ ~isStoreSupabaseMode
        /\ req[r].item.id \in IdsOf(StoredBefore(req[r]))
        /\ req[r].item \notin Range(StoredBefore(req[r]))
        /\ Len(StoredBefore(req[r])) = 2

\* C8: deleteOne(owner, id) for an id that is not stored for the owner does
\* not raise (the only errors are the backend's faults, none on the file
\* backend) and leaves the owner's store and loadAll(owner) unchanged; a
\* second delete of the same id leaves the store as the first left it
C8_DeleteAbsentIsNoop ==
    \A r \in Reqs :
        (req[r].pc = "done" /\ req[r].op = "deleteOne") =>
            LET q == req[r]
                unchanged == /\ Range(StoredNow(q)) = Range(StoredBefore(q))
                             /\ Len(StoredNow(q)) = Len(StoredBefore(q))
                             /\ LoadedNow(q) = LoadedBefore(q)
            IN /\ q.err \in Faults
               /\ ~isStoreSupabaseMode => q.err = Ok
               /\ q.id \notin IdsOf(StoredBefore(q)) => unchanged
               /\ (hist.deleted = q.id /\ hist.owner = ownerForReq(q.user)) => unchanged
               /\ q.err = Ok =>
                    Range(StoredNow(q)) = {it \in Range(StoredBefore(q)) : it.id # q.id}

\* C8, its case: the id was deleted by the call before, another item is
\* stored, and the second delete returned without error
C8_Witness ==
    \E r \in Reqs :
        /\ Returned(req[r], "deleteOne") /\ ~isStoreSupabaseMode
        /\ hist.deleted = req[r].id /\ hist.owner = ownerForReq(req[r].user)
        /\ req[r].id \notin IdsOf(StoredBefore(req[r]))
        /\ Len(StoredBefore(req[r])) > 0

\* a payload with an item that fails validation, or with an id twice
Malformed(payload) ==
    /\ payload.hasItems
    /\ \/ \E k \in 1..Len(payload.items) : ItemProblem(payload.items[k]) # Ok
       \/ HasDupIds(payload.items)

\* C9: if any item of an import payload fails validation the validator
\* returns no items (ImportValidationError) and /import leaves the store
\* unchanged: the operation never reaches its save
C9_NoPartialImport ==
    \A r \in Reqs :
        (req[r].op = "import" /\ Malformed(req[r].payload)) =>
            LET q == req[r]
                v == validateAndNormalizeImportPayload(q.payload)
            IN /\ ~v.ok /\ v.items = <<>> /\ Len(v.details) > 0
               /\ q.pc = "done" /\ q.err = "ImportValidationError"
               /\ table = q.pre.table /\ dbFile = q.pre.file

\* C9, its case: the first item of the payload is valid, the second is not,
\* and the store holds items
C9_Witness ==
    \E r \in Reqs :
        /\ req[r].op = "import" /\ req[r].pc = "done"
        /\ Len(req[r].payload.items) = 2
        /\ ItemProblem(req[r].payload.items[1]) = Ok
        /\ ItemProblem(req[r].payload.items[2]) # Ok
        /\ Len(LoadedBefore(req[r])) > 0

\* C10: after a successful import the store is the previous store plus the
\* normalized payload items whose id was not stored; every item stored before
\* is unchanged, and the reported count is the number of items added
C10_ImportAddsNewIds ==
    \A r \in Reqs :
        Returned(req[r], "import") =>
            LET q == req[r]
                before == LoadedBefore(q)
                now == LoadedNow(q)
                v == validateAndNormalizeImportPayload(q.payload)
                added == {it \in Range(v.items) : it.id \notin IdsOf(before)}
            IN /\ v.ok
               /\ Range(now) = Range(before) \cup added
               /\ \A it \in Range(before) : CountId(now, it.id) = 1
               /\ Len(now) = Len(before) + Cardinality(added)
               /\ q.n = Cardinality(added)

\* C10, its case: the payload holds a new content for a stored id and an item
\* with a new id; one item was added
C10_Witness ==
    \E r \in Reqs :
        /\ Returned(req[r], "import")
        /\ Len(req[r].payload.items) = 2
        /\ \E k \in 1..2 :
            /\ req[r].payload.items[k].id \in IdsOf(LoadedBefore(req[r]))
            /\ normalizeImportedItem(req[r].payload.items[k]) \notin Range(LoadedBefore(req[r]))
        /\ req[r].n = 1

\* the errors the validator has recorded before it comes to items[k], while
\* it is under its cap: every earlier item but the first valid one of each id
ErrorsBefore(raws, k) ==
    (k - 1) - Cardinality({raws[j].id : j \in {i \in 1..(k - 1) : ItemProblem(raws[i]) = Ok}})

SharesId(raws) == \E j, k \in 1..Len(raws) : j < k /\ raws[j].id = raws[k].id

DuplicateCited(q, k) ==
    \E d \in Range(q.details) :
        d.idx = k - 1 /\ d.message = "duplicate id inside import payload"

Validated(q) == q.pc = "done" /\ q.op = "validate"

KeysNamed(q, k) ==
    \E d \in Range(q.details) :
        /\ d.idx = k - 1 /\ d.message = "unsupported keys"
        /\ d.keys = q.payload.items[k].extra

Duplicates(q) ==
    {it \in Range(StoredNow(q)) :
        /\ it.list = "collect" /\ it.status # "done"
        /\ Fold(it.input) = Fold(q.text)
        /\ q.at - it.createdAt < 3 /\ it.createdAt - q.at < 3}

C13_WitnessLate ==
    \E r \in Reqs :
        /\ Returned(req[r], "findDuplicate")
        /\ req[r].out = <<>>
        /\ \E it \in Range(StoredNow(req[r])) :
            /\ it.list = "collect" /\ it.status # "done"
            /\ Fold(it.input) = Fold(req[r].text)
            /\ req[r].at = it.createdAt + 4

\* C14: when two saveAll calls on the file backend run concurrently, the
\* document on disk after both finish is exactly the snapshot passed to one of
\* the two calls, never a mixture and never an invalid encoding
C14_LastWriterWins ==
    (/\ ~isStoreSupabaseMode
     /\ \A r \in Reqs : Returned(req[r], "saveAll"))
        => \E r \in Reqs : dbFile = Stringify([version |-> 1, items |-> req[r].items])

RowOps == {"saveOne", "deleteOne"}

\* the rows of T whose id neither call targets
OtherRows(T, q1, q2) == {t \in T : t.id \notin {q1.id, q2.id}}

\* the rows a finished call leaves under its id for its owner
OwnRows(q) ==
    IF q.op = "saveOne" THEN {Row(q.item, ownerForReq(q.user))} ELSE {}

\* C15: on the remote backend two concurrent saveOne or deleteOne calls of
\* one owner on different ids do not interfere: after both complete each
\* targeted id is in the state its own call produced, and no other row has
\* changed since the later of the two calls began
C15_RowCallsIndependent ==
    \A r, s \in Reqs :
        (/\ r # s /\ isStoreSupabaseMode
         /\ req[r].pc = "done" /\ req[s].pc = "done"
         /\ req[r].op \in RowOps /\ req[s].op \in RowOps
         /\ req[r].user = req[s].user
         /\ req[r].id # req[s].id)
            => /\ \A q \in {req[r], req[s]} :
                    LET mine == {t \in table : t.id = q.id /\ t.owner = ownerForReq(q.user)}
                        mineBefore == {t \in q.pre.table :
                                          t.id = q.id /\ t.owner = ownerForReq(q.user)}
                    IN IF q.err = Ok THEN mine = OwnRows(q) ELSE mine = mineBefore
               /\ \E q \in {req[r], req[s]} :
                    OtherRows(table, req[r], req[s]) = OtherRows(q.pre.table, req[r], req[s])
               /\ OtherRows(table, req[r], req[s]) # {}

\* C15, its case: a saveOne and a deleteOne that began on the same table,
\* each of which changed it, have both returned
C15_Witness ==
    \E r, s \in Reqs :
        /\ Returned(req[r], "saveOne") /\ Returned(req[s], "deleteOne")
        /\ req[r].user = req[s].user /\ req[r].id # req[s].id
        /\ req[r].pre.table = req[s].pre.table
        /\ Row(req[r].item, ownerForReq(req[r].user)) \notin req[r].pre.table
        /\ \E t \in req[s].pre.table : t.id = req[s].id
        /\ \E t \in req[r].pre.table : t.id = req[r].id

\* C16: sending an item to a destination replaces its list and does not copy
\* the item: after the send the store holds exactly one item with that id,
\* its list is the destination, loadByList returns it for the destination
\* and no longer for collect
C16_SendReplacesList ==
    \A r \in Reqs :
        Returned(req[r], "send") =>
            LET q == req[r]
                owner == ownerForReq(q.user)
                now == StoredNow(q)
                inList(list) == {it.id : it \in Range(loadByListResult(list, FALSE, owner))}
            IN /\ CountId(now, q.id) = 1
               /\ \A it \in Range(now) : it.id = q.id => it.list = q.text
               /\ Len(now) = Len(StoredBefore(q))
               /\ q.id \in inList(q.text)
               /\ q.id \notin inList("collect")
               /\ \A list \in DESTINATIONS \ {q.text} : q.id \notin inList(list)

\* C16, its case: an item of collect, stored in a file with another item, was
\* sent to hacer
C16_Witness ==
    \E r \in Reqs :
        /\ Returned(req[r], "send") /\ ~isStoreSupabaseMode
        /\ req[r].text = "hacer"
        /\ Len(StoredBefore(req[r])) = 2
        /\ \E it \in Range(StoredBefore(req[r])) : it.id = req[r].id /\ it.list = "collect"

\* C16, the same on the remote table
C16_WitnessRemote ==
    \E r \in Reqs :
        /\ Returned(req[r], "send") /\ isStoreSupabaseMode
        /\ req[r].text = "desglosar"
        /\ \E it \in Range(StoredBefore(req[r])) : it.id = req[r].id /\ it.list = "collect"

\* C17: after any sequence of collect add, send, subtask send, import and
\* delete on one owner's store, no two stored items of the owner share an id
C17_IdsUnique ==
    \A r \in Reqs :
        req[r].pc = "done" => ~HasDupIds(StoredNow(req[r]))

\* C18: in every stored item the ids of its subtasks are pairwise distinct,
\* after any sequence of subtask add, send, complete, update and delete and
\* of imports
C18_SubtaskIdsUnique ==
    \A r \in Reqs :
        req[r].pc = "done" =>
            \A it \in Range(StoredNow(req[r])) :
                \A k, l \in 1..Len(it.subtasks) :
                    it.subtasks[k].id = it.subtasks[l].id => k = l

\* C19: every stored item's tags form a set of at most 5 lowercase strings of
\* at most 20 characters each, after any sequence of tag updates and imports
C19_TagsAreSmallSet ==
    \A r \in Reqs :
        req[r].pc = "done" =>
            \A it \in Range(StoredNow(req[r])) :
                /\ \A k, l \in 1..Len(it.tags) : it.tags[k] = it.tags[l] => k = l
                /\ Len(it.tags) <= 5
                /\ \A k \in 1..Len(it.tags) : Lower(it.tags[k]) = it.tags[k] /\ it.tags[k] # LongTag

\* C20: every stored item whose list is hacer has priorityScore = urgency x
\* importance, between 1 and 25, after any sequence of send to hacer, hacer
\* update and import; urgency 5 and importance 4 give 20
C20_HacerScore ==
    \A r \in Reqs :
        req[r].pc = "done" =>
            \A it \in Range(StoredNow(req[r])) :
                it.list = "hacer" =>
                    /\ it.priorityScore = it.urgency * it.importance
                    /\ it.priorityScore \in 1..25
                    /\ (it.urgency = 5 /\ it.importance = 4) => it.priorityScore = 20

\* C21: once an item's status is done, no later operation other than its
\* deletion gives it a status other than done or moves it to another list
C21_DoneIsTerminal ==
    \A r \in Reqs :
        (req[r].pc = "done" /\ req[r].op # "deleteOne") =>
            \A was \in Range(StoredBefore(req[r])) :
                was.status = "done" =>
                    \A it \in Range(StoredNow(req[r])) :
                        it.id = was.id => it.status = "done" /\ it.list = was.list

\* items[k] has a problem: it fails the per-item validation, or it is valid
\* and repeats the id of an earlier valid item
HasProblem(raws, k) ==
    \/ ItemProblem(raws[k]) # Ok
    \/ \E j \in 1..(k - 1) : ItemProblem(raws[j]) = Ok /\ raws[j].id = raws[k].id

ProblemsUpTo(raws, k) == Cardinality({j \in 1..k : HasProblem(raws, j)})

\* the item at which the tenth problem is found; 0 when there are fewer
CapIndex(raws) ==
    LET at == {k \in 1..Len(raws) : ProblemsUpTo(raws, k) >= MAX_IMPORT_ERROR_DETAILS}
    IN IF at = {} THEN 0 ELSE CHOOSE k \in at : \A l \in at : k <= l

\* problems exist after the point where the validation stopped
MoreExisted(raws) ==
    /\ CapIndex(raws) # 0
    /\ \E k \in (CapIndex(raws) + 1)..Len(raws) : HasProblem(raws, k)

\* the payload cut after the item of the tenth problem
CutAtCap(payload) ==
    [payload EXCEPT !.items = SubSeq(@, 1, CapIndex(payload.items))]

\* what a failed validation carries: err.message and err.details
Failure(payload) ==
    LET v == validateAndNormalizeImportPayload(payload)
    IN [message |-> v.message, details |-> v.details]

\* the validation stops at the tenth problem: the details are the first ten
\* problems, in order, and nothing after the tenth is looked at
StopsAtCap(q) ==
    LET raws == q.payload.items
        cited == {d.idx + 1 : d \in Range(q.details)}
    IN /\ Len(q.details) <= MAX_IMPORT_ERROR_DETAILS
       /\ cited = {k \in 1..Len(raws) :
                      HasProblem(raws, k) /\ ProblemsUpTo(raws, k) <= MAX_IMPORT_ERROR_DETAILS}
       /\ Cardinality(cited) = Len(q.details)
       /\ (q.err = Ok) <=> (q.payload.hasItems /\ ProblemsUpTo(raws, Len(raws)) = 0)
       /\ q.err # Ok => q.out = <<>>

\* C22 as stated: per-item validation stops once 10 problems are collected,
\* the error carries at most 10 itemized problems, and the failure carries an
\* indication that more problems existed (it differs from the failure of the
\* payload that ends at the tenth problem)
C22_CapIndicatesMore ==
    \A r \in Reqs :
        Validated(req[r]) =>
            /\ StopsAtCap(req[r])
            /\ MoreExisted(req[r].payload.items) =>
                    Failure(req[r].payload) # Failure(CutAtCap(req[r].payload))

\* C22, amended: per-item validation stops once 10 problems are collected,
\* the error carries at most 10 itemized problems, the first ten, and nothing
\* else: the failure is the one of the payload that ends at the tenth problem,
\* whether or not more problems follow
C22_CapStopsValidation ==
    \A r \in Reqs :
        Validated(req[r]) =>
            /\ StopsAtCap(req[r])
            /\ CapIndex(req[r].payload.items) # 0 =>
                    /\ req[r].err = "ImportValidationError"
                    /\ req[r].details = Failure(CutAtCap(req[r].payload)).details
                    /\ Failure(req[r].payload) = Failure(CutAtCap(req[r].payload))

\* C22, its case: ten rejected items, then an item with unknown keys that is
\* not cited
C22_Witness ==
    \E r \in Reqs :
        /\ Validated(req[r])
        /\ MoreExisted(req[r].payload.items)
        /\ Len(req[r].details) = MAX_IMPORT_ERROR_DETAILS
        /\ \E k \in 1..Len(req[r].payload.items) :
            /\ req[r].payload.items[k].extra # {}
            /\ \A d \in Range(req[r].details) : d.idx # k - 1

\* two calls of the validator with one payload have returned
SamePayload(q1, q2) == Validated(q1) /\ Validated(q2) /\ q1.payload = q2.payload

\* every item of the payload carries its createdAt
AllDated(payload) == \A k \in 1..Len(payload.items) : payload.items[k].createdAt >= 0

\* C23 as stated: two calls with the same payload produce equal item lists or
\* equal errors, whatever the time of the calls and whatever the store holds
C23_Deterministic ==
    \A r, s \in Reqs :
        SamePayload(req[r], req[s]) =>
            /\ req[r].err = req[s].err
            /\ req[r].details = req[s].details
            /\ req[r].out = req[s].out

\* C23, amended: two calls with the same payload produce equal errors, and
\* equal item lists when they are made at the same time or when every item
\* carries its createdAt, whatever the store holds; an item without createdAt
\* gets the time of the call, and that is the only difference
C23_DeterministicGivenTime ==
    \A r, s \in Reqs :
        SamePayload(req[r], req[s]) =>
            LET q1 == req[r]
                q2 == req[s]
                raws == q1.payload.items
            IN /\ q1.err = q2.err
               /\ q1.details = q2.details
               /\ (q1.at = q2.at \/ AllDated(q1.payload)) => q1.out = q2.out
               /\ Len(q1.out) = Len(q2.out)
               /\ \A k \in 1..Len(q1.out) :
                    /\ [q1.out[k] EXCEPT !.createdAt = 0] = [q2.out[k] EXCEPT !.createdAt = 0]
                    /\ q1.out[k].createdAt =
                          (IF raws[k].createdAt < 0 THEN q1.at ELSE raws[k].createdAt)

\* C23, its case: the same payload of two items, one without createdAt, was
\* accepted at two different times on two different stores
C23_Witness ==
    \E r, s \in Reqs :
        /\ SamePayload(req[r], req[s])
        /\ req[r].err = Ok /\ Len(req[r].out) = 2
        /\ ~AllDated(req[r].payload)
        /\ req[r].at # req[s].at
        /\ req[r].pre # req[s].pre
        /\ req[r].out # req[s].out

\* C24: on the file backend loadAll never raises and always returns a
\* sequence of items: the empty one when the file is missing, is not parseable
\* JSON, or is a parseable document without an items array
C24_LoadAllReturnsSequence ==
    \A r \in Reqs :
        (req[r].pc = "done" /\ req[r].op = "loadAll" /\ ~isStoreSupabaseMode) =>
            /\ req[r].err = Ok
            /\ req[r].array
            /\ req[r].pre.file.kind # "doc" => req[r].out = <<>>

\* the message of the error mentions the phrase, in capitals or not
Mentions(err, phrase) == phrase \in err.phrases

\* C25: every persistence error is mapped to exactly one of three categories:
\* schema mismatch when its code is 42P10 or its message mentions a missing
\* unique or exclusion constraint; otherwise permission failure when its code
\* is 42501 or its message mentions permission denied or row-level security;
\* otherwise generic failure
C25_ErrorCategories ==
    \A r \in Reqs :
        (req[r].pc = "done" /\ req[r].op = "persistFailed") =>
            LET err == req[r].thrown
                schema == err.code = "42P10" \/ Mentions(err, NoConstraint)
                permission == \/ err.code = "42501"
                              \/ Mentions(err, PermissionDenied)
                              \/ Mentions(err, RowLevelSecurity)
            IN /\ req[r].text \in {SchemaMismatch, PermissionFailure, GenericFailure}
               /\ (req[r].text = SchemaMismatch) <=> schema
               /\ (req[r].text = PermissionFailure) <=> (~schema /\ permission)
               /\ (req[r].text = GenericFailure) <=> (~schema /\ ~permission)

\* C25, its case: an error of code 42501 whose message, in capitals, mentions
\* the missing constraint is a schema mismatch
C25_Witness ==
    \E r \in Reqs :
        /\ req[r].pc = "done" /\ req[r].op = "persistFailed"
        /\ req[r].thrown.code = "42501"
        /\ req[r].thrown.upper /\ Mentions(req[r].thrown, NoConstraint)
        /\ req[r].text = SchemaMismatch

\* the collect items that the two requests have stored
StoredBy(q1, q2) ==
    {it \in Range(StoredNow(q1)) : it.list = "collect" /\ it.id \in {q1.id, q2.id} \ {0}}

\* C26: two /collect/add requests of one owner with the same input text (up
\* to case and surrounding whitespace) that arrive within 3 seconds of each
\* other store at most one collect item, in any interleaving of their
\* duplicate-check and save steps; the request that finds the existing item
\* is answered with it and marked deduped
C26_DoubleSubmitStoresOne ==
    \A r, s \in Reqs :
        (/\ r # s
         /\ Returned(req[r], "collectAdd") /\ Returned(req[s], "collectAdd")
         /\ req[r].user = req[s].user
         /\ Fold(req[r].text) = Fold(req[s].text)
         /\ Abs(req[r].at - req[s].at) < DUPLICATE_WINDOW)
            => /\ Cardinality(StoredBy(req[r], req[s])) <= 1
               /\ \A q \in {req[r], req[s]} :
                    q.out # <<>> => q.id = 0 /\ q.out[1] \in Range(StoredNow(q))

RowsOfOthers(T, q) == {t \in T : t.owner # ownerForReq(q.user)}

\* C28: on the remote backend a save made for owner X (saveOne, saveAll, the
\* save that follows an import) never changes, re-owns or removes a row of an
\* owner Y # X, whether the table is unique on (id, owner) or on id alone
C28_SaveKeepsOtherOwners ==
    \A r \in Reqs :
        (/\ isStoreSupabaseMode
         /\ req[r].pc = "done"
         /\ req[r].op \in {"saveOne", "saveAll", "import"})
            => RowsOfOthers(req[r].pre.table, req[r]) \subseteq table

\* the subtask subId of the stored project id is marked sent and its
\* sentItemId names a stored item whose sourceProjectId and sourceSubtaskId
\* point back to that project and that subtask
SentAndLinked(items, id, subId) ==
    \E p \in Range(items) :
        /\ p.id = id
        /\ \E k \in 1..Len(p.subtasks) :
              /\ p.subtasks[k].id = subId
              /\ p.subtasks[k].status = "sent"
              /\ \E t \in Range(items) :
                    /\ t.id = p.subtasks[k].sentItemId
                    /\ t.sourceProjectId = id
                    /\ t.sourceSubtaskId = subId

\* C29: when a subtask send ends, with or without an error, either the
\* subtask is marked sent with sentItemId naming a stored item whose
\* sourceProjectId and sourceSubtaskId point back to it, or the owner's items
\* (the subtask among them) are as they were before the request
C29_SubtaskSendAllOrNothing ==
    \A r \in Reqs :
        (req[r].pc = "done" /\ req[r].op = "subtaskSend") =>
            \/ SentAndLinked(StoredNow(req[r]), req[r].id, req[r].n)
            \/ Range(StoredNow(req[r])) = Range(StoredBefore(req[r]))

\* C30: on the file backend an item that is stored before two requests start
\* and is deleted by neither of them is still stored after both have
\* completed, in any interleaving of their load and save steps
C30_StoredItemSurvives ==
    (\A r \in Reqs : req[r].pc = "done" /\ req[r].op \in {"collectAdd", "saveOne"})
        => IdsOf(KeptItems) \subseteq IdsOf(LoadDbLocal(dbFile).items)

====
